---- MODULE Spec2Model ----
(***************************************************************************)
(* Model of the MediaScanner worker pool (internal/worker), the classifier *)
(* conversation (internal/llm) and the orchestrator (internal/processor).  *)
(*                                                                         *)
(* The specifications share the variables:                                 *)
(*   SpecGate    the three capacity gates driven by arbitrary callers that *)
(*               release only what they acquired;                          *)
(*   SpecGateAny SpecGate plus Release calls by callers holding nothing;   *)
(*   SpecPool    queues, workers, Start and Stop around an opaque          *)
(*               processing function;                                      *)
(*   Spec        the pool running the orchestrator and the classifier;     *)
(*   SpecOrch    one task of the orchestrator (a single file or a batch)   *)
(*               against the store, the notifier and the file system;      *)
(*   SpecScan    scan passes against the store while records progress;     *)
(*   SpecPass    scan passes and file-watcher events against the store;    *)
(*   SpecBucket  a provider's token bucket and its callers;                *)
(*   SpecCache   cached provider lookups through the bucket;               *)
(*   SpecConv    the classifier conversations of tasks running at once,    *)
(*               with the handler registry they share.                     *)
(***************************************************************************)
EXTENDS Naturals, Integers, Sequences, FiniteSets, TLC

\* ---------------------------------------------------------------------------
\* Configuration (config.WorkerPoolConfig) and model bounds
\* ---------------------------------------------------------------------------
WorkerCount == 2
BatchWorkerCount == 1
MaxConcurrentLLM == 2
MaxConcurrentAPI == 2
MaxConcurrentFileOp == 2
QueueSize == 2
MaxRetries == 1
BatchSize == 2
MaxPaths == 4
BatchThreshold == 3
Rate == 1
Burst == 3
TicksPerSecond == 2
MaxClock == 4
CacheTTL == 2
MaxRows == 2
MaxRounds == 2

NumProcs == WorkerCount + BatchWorkerCount
Procs == 1..NumProcs
GeneralWorkers == 1..WorkerCount
BatchWorkers == (WorkerCount + 1)..NumProcs

Gates == {"llm", "api", "fileop"}

\* MediaFile records of the task in hand: one for a single-file task, the
\* members of the batch for a batch task
Files == 1..BatchSize
NoNotes == [error |-> 0, success |-> 0]

\* The video files under the media directories, in the order filepath.Walk
\* visits them, and the directory of each
Paths == 1..MaxPaths
DirOf(p) == IF p <= BatchThreshold THEN 1 ELSE 2
Dirs == {DirOf(p) : p \in Paths}

VARIABLES
    sem,        \* [Gates -> Nat]: tokens buffered in each gate's channel
    sendq,      \* [Gates -> Seq(Procs)]: goroutines parked in a send on the channel
    wake,       \* [Procs -> {"", "ok", "cancelled"}]: select case that woke a parked goroutine
    expired,    \* [Procs -> BOOLEAN]: the deadline of the caller's / task's own context fired
    poolDone,   \* p.ctx of the pool is cancelled
    cpc,        \* SpecGate: [Procs -> {"idle","parked","held"}]
    cgate,      \* SpecGate: gate a caller waits for or holds
    cerr,       \* SpecGate: result of the caller's last Acquire
    taskQueue,      \* p.taskQueue: the queued tasks (their Type), oldest first
    batchTaskQueue, \* p.batchTaskQueue
    lastAdd,        \* the AddTask call whose result the submitter has not yet consumed
    started,        \* Start was called
    stopPc,         \* Stop: "no" | "waiting" (in wg.Wait) | "returned"
    wg,             \* p.wg counter
    wpc,            \* [Procs -> position of the worker goroutine]
    wtask,          \* [Procs -> Type of the task in process, "none" if none]
    attempt,        \* [Procs -> index i of the retry loop of the first model call]
    midx,           \* [Procs -> index of the file being applied (batch member index)]
    held,           \* [Procs -> SUBSET Gates]: gates the worker acquired and has not released
    orch,           \* SpecOrch: the orchestrator's task, the store's records, the notifier
                    \* and the file system (a record, see OrchIdle)
    scan,           \* SpecScan: the scanner's walk, its ScanResult and the MediaFile
                    \* record of each path (a record, see ScanIdle)
    gw,             \* SpecBucket, SpecCache: a provider's token bucket, the clock, the
                    \* API cache and the callers' lookups (a record, see GwIdle)
    conv            \* SpecConv: the classifier's handler registry and LLM gate and the
                    \* conversation of each task (a record, see ConvIdle)

gateVars == <<sem, sendq, wake>>
callerVars == <<cpc, cgate, cerr>>
queueVars == <<taskQueue, batchTaskQueue, lastAdd>>
poolVars == <<started, stopPc, wg>>
workerVars == <<wpc, wtask, attempt, midx, held>>
extVars == <<orch, scan, gw, conv>>
coreVars == <<gateVars, expired, poolDone, callerVars, queueVars, poolVars, workerVars>>
vars == <<sem, sendq, wake, expired, poolDone, cpc, cgate, cerr,
          taskQueue, batchTaskQueue, lastAdd, started, stopPc, wg,
          wpc, wtask, attempt, midx, held, orch, scan, gw, conv>>
orchFrame == <<coreVars, scan, gw, conv>>
scanFrame == <<coreVars, orch, gw, conv>>
gwFrame == <<coreVars, orch, scan, conv>>
convFrame == <<coreVars, orch, scan, gw>>

\* (mutant) contexts made from context.Background(): p.cancel() reaches none
CtxDoneDetached(p) == expired[p]

\* ctx.Done() is closed: a context made by context.WithTimeout(p.ctx, d) is
\* done once its deadline fired or p.ctx was cancelled
CtxDone(p) == expired[p] \/ poolDone

\* ---------------------------------------------------------------------------
\* The gates: buffered channels of capacity cfg.MaxConcurrentX
\* ---------------------------------------------------------------------------
GateCap(g) ==
    CASE g = "llm" -> MaxConcurrentLLM
      [] g = "api" -> MaxConcurrentAPI
      [] g = "fileop" -> MaxConcurrentFileOp

\* (mutant) a channel made one slot too large
HasRoomOffByOne(g) == sem[g] <= GateCap(g)

\* the send case of Acquire's select can proceed: the buffer has room
HasRoom(g) == sem[g] < GateCap(g)

\* Outcomes of the select in AcquireXSemaphore for a context that is done (d)
\* or not: every ready case may be chosen; with none ready the caller parks.
AcquireOutcomes(g, d) ==
    LET ready == (IF d THEN {"cancelled"} ELSE {}) \cup
                 (IF HasRoom(g) THEN {"ok"} ELSE {})
    IN IF ready = {} THEN {"park"} ELSE ready

\* Channel state after Acquire with outcome o by goroutine p
GateAfterAcquire(p, g, o) ==
    /\ sem' = IF o = "ok" THEN [sem EXCEPT ![g] = @ + 1] ELSE sem
    /\ sendq' = IF o = "park" THEN [sendq EXCEPT ![g] = Append(@, p)] ELSE sendq
    /\ wake' = wake

\* (mutant) a release that only decrements and leaves parked senders asleep
GateAfterReleaseNoHandoff(g) ==
    /\ sem' = [sem EXCEPT ![g] = IF @ > 0 THEN @ - 1 ELSE @]
    /\ UNCHANGED <<sendq, wake>>

\* ReleaseXSemaphore: a non-blocking receive.  With a parked sender the
\* receive takes a token and the sender's token enters the buffer (the sender
\* is woken holding the slot); with an empty channel the default case runs.
GateAfterRelease(g) ==
    IF sendq[g] # <<>>
    THEN /\ sendq' = [sendq EXCEPT ![g] = Tail(@)]
         /\ wake' = [wake EXCEPT ![Head(sendq[g])] = "ok"]
         /\ sem' = sem
    ELSE /\ sem' = [sem EXCEPT ![g] = IF @ > 0 THEN @ - 1 ELSE @]
         /\ UNCHANGED <<sendq, wake>>

RemoveFrom(q, S) == SelectSeq(q, LAMBDA x : x \notin S)

\* Closing a context's Done channel wakes every goroutine of S parked on it
\* with the cancellation case chosen.
ParkedUnwoken(S) == {p \in S : wake[p] = "" /\ \E g \in Gates : \E i \in 1..Len(sendq[g]) : sendq[g][i] = p}

\* (mutant) an Acquire whose select has no ctx.Done() case
GateAfterCancelNoWake(S) == UNCHANGED <<sem, sendq, wake>>

\* Goroutines whose context becomes done in the step
NewlyDone == {p \in Procs : ~CtxDone(p) /\ CtxDone(p)'}

GateAfterCancel(S) ==
    /\ sendq' = [g \in Gates |-> RemoveFrom(sendq[g], S)]
    /\ wake' = [p \in Procs |-> IF p \in ParkedUnwoken(S) THEN "cancelled" ELSE wake[p]]
    /\ sem' = sem

\* ---------------------------------------------------------------------------
\* SpecGate: callers of the gate API
\* ---------------------------------------------------------------------------
NoAdd == [type |-> "none", err |-> "none"]

\* The queues, workers and Stop as they are right after worker.New
PoolIdle ==
    /\ taskQueue = <<>>
    /\ batchTaskQueue = <<>>
    /\ lastAdd = NoAdd
    /\ started = FALSE
    /\ stopPc = "no"
    /\ wg = 0
    /\ wpc = [w \in Procs |-> "new"]
    /\ wtask = [w \in Procs |-> "none"]
    /\ attempt = [w \in Procs |-> 0]
    /\ midx = [w \in Procs |-> 0]
    /\ held = [w \in Procs |-> {}]

\* The orchestrator's task in hand and what it reads and writes:
\*   kind         Type of the task: "single" | "batch"
\*   pc           position in ProcessMediaFile / ProcessBatchFiles; at the end
\*                "done" (returned nil) or "error" (returned an error)
\*   cur          MediaFile being processed (loop variable of the member loop)
\*   batchStatus  persisted BatchProcess.Status
\*   loaded       members whose record GetMediaFileByID returned (mediaFiles)
\*   bf           member record in batchFile during a turn of the member loop,
\*                named by the MediaFile it references; 0 when there is none
\*   bfCall       Status of each member record in the last call of
\*                UpdateBatchProcessFile made with it, "none" before any
\*   hasResult    members with an entry in resultMap
\*   notifEnabled config.Notification.Enabled
\*   mode         config.FileOps.Mode
\*   target       destPath chosen by ProcessFile for the file in hand
\*   dbStatus, dbErr, dbDest   persisted MediaFile.Status, .ErrorMessage,
\*                .DestinationPath of each file
\*   notes        number of Notification records of each file, by Type
\*   srcAt        the source file is at its original path
\*   dst          the destination file: "none" | "partial" | "complete"
\*   cause        the step that failed for the file, "none" if none
\*   lost         calls for the file whose error was ignored or only logged
OrchState(kinds, enabled, modes) ==
    [kind : kinds, pc : {"idle"}, cur : {0}, batchStatus : {"pending"},
     loaded : {{}}, hasResult : {{}}, notifEnabled : enabled, mode : modes,
     bf : {0}, bfCall : {[f \in Files |-> "none"]},
     target : {""},
     dbStatus : {[f \in Files |-> "pending"]},
     dbErr : {[f \in Files |-> ""]},
     dbDest : {[f \in Files |-> ""]},
     notes : {[f \in Files |-> NoNotes]},
     srcAt : {[f \in Files |-> TRUE]},
     dst : {[f \in Files |-> "none"]},
     cause : {[f \in Files |-> "none"]},
     lost : {[f \in Files |-> {}]}]

\* The orchestrator with no task in hand
OrchIdle == orch \in OrchState({"none"}, {TRUE}, {"move"})

\* Gates, callers, queues and workers right after worker.New
CoreIdle ==
    /\ sem = [g \in Gates |-> 0]
    /\ sendq = [g \in Gates |-> <<>>]
    /\ wake = [p \in Procs |-> ""]
    /\ expired = [p \in Procs |-> FALSE]
    /\ poolDone = FALSE
    /\ cpc = [p \in Procs |-> "idle"]
    /\ cgate = [p \in Procs |-> "llm"]
    /\ cerr = [p \in Procs |-> "none"]
    /\ PoolIdle

\* The scanner's states before any scan: no MediaFile row, an empty
\* ScanResult.  video: the paths with an allowed extension that match no
\* exclude pattern; nested: directory 2 lies inside directory 1
ScanState(videos, nesteds) ==
    [pc : {"idle"}, pos : {0},
     video : videos, nested : nesteds,
     rec : {[p \in Paths |-> "none"]},
     n : {[p \in Paths |-> 0]},
     newFiles : {<<>>},
     batchDirs : {[d \in Dirs |-> <<>>]},
     surv : {{}},
     sub : {[p \in Paths |-> {}]},
     ev : {0},
     full : {FALSE}]

ScanIdle == scan \in ScanState({Paths}, {FALSE})

\* One token, and a full bucket, in units of 1/TicksPerSecond token (a tick of
\* the clock adds Rate units)
Whole == TicksPerSecond
BurstUnits == Burst * TicksPerSecond

\* The goroutines that call the limiter: the general workers, each from the
\* lookups of the task it is processing
Callers == GeneralWorkers

\* The queries looked up at a provider (the cache keys "movie:<query>:<year>")
Keys == {"movie:a:0"}

LookupIdle == [pc |-> "idle", key |-> "", miss |-> ""]
NoOutcome == [to |-> 0, src |-> "none", val |-> 0]

\* NewTokenBucketRateLimiter(rate, bucketSize) at time 0: a full bucket; no
\* caller is inside the limiter; the api_caches table is empty and no lookup
\* is under way
GwIdle ==
    gw = [now |-> 0, last |-> 0, tokens |-> BurstUnits,
          pc |-> [c \in Callers |-> "idle"],
          due |-> [c \in Callers |-> 0],
          wake |-> [c \in Callers |-> ""],
          done |-> [c \in Callers |-> FALSE],
          res |-> [c \in Callers |-> "none"],
          tries0 |-> 0, succ0 |-> 0, waited |-> FALSE, emptiedAt |-> -1,
          rows |-> <<>>,
          lk |-> [c \in Callers |-> LookupIdle],
          out |-> NoOutcome]

\* The tool names the processor registers, and the names a model may request
Tools == {"searchTMDB", "searchTVDB", "searchBangumi"}
Requested == Tools \cup {"searchOther"}

\* NewLLM: an empty functionMap, a free gate; no task has begun
ConvIdle ==
    conv = [registry |-> {}, llm |-> 0,
            pc |-> [c \in Callers |-> "idle"],
            i |-> [c \in Callers |-> 0],
            rounds |-> [c \in Callers |-> 0],
            name |-> [c \in Callers |-> ""],
            res |-> [c \in Callers |-> "none"]]

ExtIdle == OrchIdle /\ ScanIdle /\ GwIdle /\ ConvIdle

InitGate == CoreIdle /\ ExtIdle

\* A caller enters Acquire on gate g
CallerAcquire(p, g) ==
    /\ cpc[p] = "idle"
    /\ \E o \in AcquireOutcomes(g, CtxDone(p)) :
        /\ GateAfterAcquire(p, g, o)
        /\ cpc' = [cpc EXCEPT ![p] = CASE o = "ok" -> "held"
                                         [] o = "park" -> "parked"
                                         [] o = "cancelled" -> "idle"]
        /\ cerr' = [cerr EXCEPT ![p] = CASE o = "ok" -> "nil"
                                           [] o = "park" -> "none"
                                           [] o = "cancelled" -> "cancelled"]
    /\ cgate' = [cgate EXCEPT ![p] = g]
    /\ UNCHANGED <<extVars, expired, poolDone, queueVars, poolVars, workerVars>>

\* A parked caller resumes and Acquire returns
CallerAcquireReturn(p) ==
    /\ cpc[p] = "parked"
    /\ wake[p] # ""
    /\ cpc' = [cpc EXCEPT ![p] = IF wake[p] = "ok" THEN "held" ELSE "idle"]
    /\ cerr' = [cerr EXCEPT ![p] = IF wake[p] = "ok" THEN "nil" ELSE "cancelled"]
    /\ wake' = [wake EXCEPT ![p] = ""]
    /\ UNCHANGED <<extVars, sem, sendq, expired, poolDone, cgate, queueVars, poolVars, workerVars>>

\* A caller releases the slot it holds
CallerRelease(p) ==
    /\ cpc[p] = "held"
    /\ GateAfterRelease(cgate[p])
    /\ cpc' = [cpc EXCEPT ![p] = "idle"]
    /\ UNCHANGED <<extVars, expired, poolDone, cgate, cerr, queueVars, poolVars, workerVars>>

\* A caller that holds nothing calls Release on gate g
CallerReleaseNotHeld(p, g) ==
    /\ cpc[p] = "idle"
    /\ GateAfterRelease(g)
    /\ cgate' = [cgate EXCEPT ![p] = g]
    /\ UNCHANGED <<extVars, expired, poolDone, cpc, cerr, queueVars, poolVars, workerVars>>

\* The deadline of the caller's own context fires (context.WithTimeout)
CallerDeadline(p) ==
    /\ ~CtxDone(p)
    /\ expired' = [expired EXCEPT ![p] = TRUE]
    /\ poolDone' = poolDone
    /\ GateAfterCancel(NewlyDone)
    /\ UNCHANGED <<extVars, callerVars, queueVars, poolVars, workerVars>>

\* p.cancel(): the pool's context and every context derived from it
CallerPoolCancel ==
    /\ ~poolDone
    /\ poolDone' = TRUE
    /\ expired' = expired
    /\ GateAfterCancel(NewlyDone)
    /\ UNCHANGED <<extVars, callerVars, queueVars, poolVars, workerVars>>

\* An idle caller starts over with a fresh context derived from p.ctx
CallerNewContext(p) ==
    /\ cpc[p] = "idle"
    /\ expired[p]
    /\ expired' = [expired EXCEPT ![p] = FALSE]
    /\ UNCHANGED <<extVars, gateVars, poolDone, callerVars, queueVars, poolVars, workerVars>>

NextGate ==
    \/ \E p \in Procs, g \in Gates : CallerAcquire(p, g)
    \/ \E p \in Procs : CallerAcquireReturn(p)
    \/ \E p \in Procs : CallerRelease(p)
    \/ \E p \in Procs : CallerDeadline(p)
    \/ CallerPoolCancel
    \/ \E p \in Procs : CallerNewContext(p)

SpecGate == InitGate /\ [][NextGate]_vars

NextGateAny ==
    \/ NextGate
    \/ \E p \in Procs, g \in Gates : CallerReleaseNotHeld(p, g)

SpecGateAny == InitGate /\ [][NextGateAny]_vars

\* Callers that returned successfully from Acquire on g and have not released
Holding(g) == {p \in Procs : cpc[p] = "held" /\ cgate[p] = g}

\* ---------------------------------------------------------------------------
\* Spec: the pool as the program runs it.  main creates the LLM gate on one
\* Pool and the processor creates the Pool whose queues and workers run; the
\* workers call the classifier, which acquires the LLM gate.
\* ---------------------------------------------------------------------------
Init == InitGate

QueueOf(type) == IF type = "batch" THEN batchTaskQueue ELSE taskQueue

\* (mutant) AddTask without the outer test of p.ctx.Done()
AddTaskOutcomeNoStopTest(q) == IF Len(q) < QueueSize THEN "nil" ELSE "full"

\* AddTask: the outer select returns "worker pool is stopped" when p.ctx is
\* done; otherwise the inner select sends or reports the queue full
AddTaskOutcome(q) ==
    IF poolDone THEN "stopped"
    ELSE IF Len(q) < QueueSize THEN "nil" ELSE "full"

\* The queues after AddTask of a task of the given Type returned e
QueuesAfterAdd(type, e) ==
    /\ taskQueue' = IF e = "nil" /\ type = "single"
                    THEN Append(taskQueue, type) ELSE taskQueue
    /\ batchTaskQueue' = IF e = "nil" /\ type = "batch"
                         THEN Append(batchTaskQueue, type) ELSE batchTaskQueue

\* AddTask is called and returns; the caller has its result in hand
AddTask(type) ==
    /\ started
    /\ lastAdd = NoAdd
    /\ LET e == AddTaskOutcome(QueueOf(type))
       IN /\ lastAdd' = [type |-> type, err |-> e]
          /\ QueuesAfterAdd(type, e)
    /\ UNCHANGED <<extVars, gateVars, expired, poolDone, callerVars, poolVars, workerVars>>

\* QueueMediaFile / QueueBatchProcess called from scanAndProcess, which only
\* logs the error: call and return as one step
QueueTask(type) ==
    /\ started
    /\ QueuesAfterAdd(type, AddTaskOutcome(QueueOf(type)))
    /\ UNCHANGED <<extVars, gateVars, expired, poolDone, callerVars, lastAdd, poolVars, workerVars>>

\* The submitter (scanAndProcess) logs the error, if any, and goes on
AddTaskReturn ==
    /\ lastAdd # NoAdd
    /\ lastAdd' = NoAdd
    /\ UNCHANGED <<extVars, gateVars, expired, poolDone, callerVars, taskQueue,
                   batchTaskQueue, poolVars, workerVars>>

\* Start: one goroutine per general and per batch worker, wg.Add(1) for each
Start ==
    /\ ~started
    /\ started' = TRUE
    /\ wg' = wg + NumProcs
    /\ wpc' = [w \in Procs |-> "idle"]
    /\ UNCHANGED <<extVars, gateVars, expired, poolDone, callerVars, queueVars, stopPc,
                   wtask, attempt, midx, held>>

\* Workers that are inside the processing function
InFlight == {w \in Procs : wpc[w] \notin {"new", "idle", "exited"}}

\* Stop, first half: p.cancel(), then wg.Wait() begins
StopCall ==
    /\ started
    /\ stopPc = "no"
    /\ stopPc' = "waiting"
    /\ poolDone' = TRUE
    /\ expired' = expired
    /\ GateAfterCancel(NewlyDone)
    /\ UNCHANGED <<extVars, callerVars, queueVars, started, wg, workerVars>>

\* (mutant) a Stop that does not wait for the workers
WaitGroupZeroNoWait == TRUE

\* wg.Wait() returns
WaitGroupZero == wg = 0

StopReturn ==
    /\ stopPc = "waiting"
    /\ WaitGroupZero
    /\ stopPc' = "returned"
    /\ UNCHANGED <<extVars, gateVars, expired, poolDone, callerVars, queueVars, started,
                   wg, workerVars>>

\* (mutant) a receive that leaves the task in the channel
WorkerTakePeek(w) ==
    /\ wpc[w] = "idle"
    /\ LET q == IF w \in BatchWorkers THEN batchTaskQueue ELSE taskQueue
       IN /\ q # <<>>
          /\ wtask' = [wtask EXCEPT ![w] = Head(q)]
    /\ wpc' = [wpc EXCEPT ![w] = "proc"]
    /\ UNCHANGED <<extVars, gateVars, expired, poolDone, callerVars, queueVars, poolVars,
                   attempt, midx, held>>

\* worker / batchWorker: the select takes a task, makes its context with
\* context.WithTimeout(p.ctx, ...) and calls p.processor(ctx, task)
WorkerTake(w) ==
    /\ wpc[w] = "idle"
    /\ LET q == IF w \in BatchWorkers THEN batchTaskQueue ELSE taskQueue
       IN /\ q # <<>>
          /\ taskQueue' = IF w \in BatchWorkers THEN taskQueue ELSE Tail(q)
          /\ batchTaskQueue' = IF w \in BatchWorkers THEN Tail(q) ELSE batchTaskQueue
          /\ wtask' = [wtask EXCEPT ![w] = Head(q)]
    /\ wpc' = [wpc EXCEPT ![w] = "proc"]
    /\ UNCHANGED <<extVars, gateVars, expired, poolDone, callerVars, lastAdd, poolVars,
                   attempt, midx, held>>

\* worker / batchWorker: the select sees p.ctx.Done(); deferred wg.Done()
WorkerExit(w) ==
    /\ wpc[w] = "idle"
    /\ poolDone
    /\ wpc' = [wpc EXCEPT ![w] = "exited"]
    /\ wg' = wg - 1
    /\ UNCHANGED <<extVars, gateVars, expired, poolDone, callerVars, queueVars, started,
                   stopPc, wtask, attempt, midx, held>>

\* The processing function returns to the worker loop, which calls cancel()
Returned(w) ==
    /\ wpc' = [wpc EXCEPT ![w] = "idle"]
    /\ wtask' = [wtask EXCEPT ![w] = "none"]
    /\ attempt' = [attempt EXCEPT ![w] = 0]
    /\ midx' = [midx EXCEPT ![w] = 0]
    /\ expired' = [expired EXCEPT ![w] = FALSE]

\* The pool seen by itself: p.processor is whatever function the pool was
\* given; it runs and returns
ProcessorReturn(w) ==
    /\ wpc[w] = "proc"
    /\ Returned(w)
    /\ UNCHANGED <<extVars, gateVars, poolDone, callerVars, queueVars, poolVars, held>>

\* ProcessMediaFile / ProcessBatchFiles up to the classifier call: the status
\* update (and, for a batch, the member lookup) may fail and end the task
ProcBegin(w) ==
    /\ wpc[w] = "proc"
    /\ \E dbOk \in BOOLEAN :
        IF dbOk
        THEN /\ wpc' = [wpc EXCEPT ![w] = "acq"]
             /\ UNCHANGED <<wtask, attempt, midx, expired>>
        ELSE Returned(w)
    /\ UNCHANGED <<extVars, gateVars, poolDone, callerVars, queueVars, poolVars, held>>

\* llm.ProcessMediaFile / ProcessBatchFiles: l.semaphore.Acquire(ctx)
ConvAcquire(w) ==
    /\ wpc[w] = "acq"
    /\ \E o \in AcquireOutcomes("llm", CtxDone(w)) :
        /\ GateAfterAcquire(w, "llm", o)
        /\ \/ /\ o = "ok"
              /\ wpc' = [wpc EXCEPT ![w] = "call0"]
              /\ held' = [held EXCEPT ![w] = @ \cup {"llm"}]
              /\ UNCHANGED <<wtask, attempt, midx, expired>>
           \/ /\ o = "park"
              /\ wpc' = [wpc EXCEPT ![w] = "parked"]
              /\ UNCHANGED <<wtask, attempt, midx, expired, held>>
           \/ /\ o = "cancelled"
              /\ Returned(w)
              /\ UNCHANGED held
    /\ UNCHANGED <<extVars, poolDone, callerVars, queueVars, poolVars>>

\* The parked Acquire returns: with the slot, or with ctx.Err()
ConvAcquireReturn(w) ==
    /\ wpc[w] = "parked"
    /\ wake[w] # ""
    /\ wake' = [wake EXCEPT ![w] = ""]
    /\ IF wake[w] = "ok"
       THEN /\ wpc' = [wpc EXCEPT ![w] = "call0"]
            /\ held' = [held EXCEPT ![w] = @ \cup {"llm"}]
            /\ UNCHANGED <<wtask, attempt, midx, expired>>
       ELSE /\ Returned(w)
            /\ UNCHANGED held
    /\ UNCHANGED <<extVars, sem, sendq, poolDone, callerVars, queueVars, poolVars>>

\* (mutant) a return path that forgets the release (no defer)
ConvExitNoRelease(w, ok) ==
    /\ UNCHANGED gateVars
    /\ held' = [held EXCEPT ![w] = @ \ {"llm"}]
    /\ IF ok
       THEN /\ wpc' = [wpc EXCEPT ![w] = "file"]
            /\ midx' = [midx EXCEPT ![w] = 1]
            /\ attempt' = [attempt EXCEPT ![w] = 0]
            /\ UNCHANGED <<wtask, expired>>
       ELSE Returned(w)

\* The classifier returns: the deferred l.semaphore.Release() runs; with a
\* result the orchestrator goes on to apply it, with an error the task ends
ConvExit(w, ok) ==
    /\ GateAfterRelease("llm")
    /\ held' = [held EXCEPT ![w] = @ \ {"llm"}]
    /\ IF ok
       THEN /\ wpc' = [wpc EXCEPT ![w] = "file"]
            /\ midx' = [midx EXCEPT ![w] = 1]
            /\ attempt' = [attempt EXCEPT ![w] = 0]
            /\ UNCHANGED <<wtask, expired>>
       ELSE Returned(w)

\* What a model call can come back with
ModelReplies == {"err", "final_ok", "final_bad", "tool_known", "tool_unknown"}

\* (mutant) a tool-call round that gives the slot back while the handler runs
HandleReplyReleasing(w, r) ==
    IF r = "tool_known"
    THEN /\ wpc' = [wpc EXCEPT ![w] = "handler"]
         /\ attempt' = [attempt EXCEPT ![w] = 0]
         /\ GateAfterRelease("llm")
         /\ UNCHANGED <<wtask, midx, expired, held>>
    ELSE ConvExit(w, r = "final_ok")

\* A reply without error: a request for a registered tool goes to its handler;
\* an unregistered tool name, or a final answer (parsed or not), ends the call
HandleReply(w, r) ==
    IF r = "tool_known"
    THEN /\ wpc' = [wpc EXCEPT ![w] = "handler"]
         /\ attempt' = [attempt EXCEPT ![w] = 0]
         /\ UNCHANGED <<gateVars, wtask, midx, expired, held>>
    ELSE ConvExit(w, r = "final_ok")

\* The first model call, inside the retry loop i = 0..MaxRetries
ConvFirstCall(w) ==
    /\ wpc[w] = "call0"
    /\ \E r \in ModelReplies :
        IF r = "err"
        THEN IF attempt[w] < MaxRetries
             THEN /\ attempt' = [attempt EXCEPT ![w] = @ + 1]
                  /\ UNCHANGED <<gateVars, wpc, wtask, midx, expired, held>>
             ELSE ConvExit(w, FALSE)
        ELSE HandleReply(w, r)
    /\ UNCHANGED <<extVars, poolDone, callerVars, queueVars, poolVars>>

\* The registered handler runs its provider search and returns
ConvHandler(w) ==
    /\ wpc[w] = "handler"
    /\ \E ok \in BOOLEAN :
        IF ok
        THEN /\ wpc' = [wpc EXCEPT ![w] = "calln"]
             /\ UNCHANGED <<gateVars, wtask, attempt, midx, expired, held>>
        ELSE ConvExit(w, FALSE)
    /\ UNCHANGED <<extVars, poolDone, callerVars, queueVars, poolVars>>

\* The model call that follows a tool result (not retried)
ConvFollowUp(w) ==
    /\ wpc[w] = "calln"
    /\ \E r \in ModelReplies :
        IF r = "err" THEN ConvExit(w, FALSE) ELSE HandleReply(w, r)
    /\ UNCHANGED <<extVars, poolDone, callerVars, queueVars, poolVars>>

\* (mutant) a batch that returns at the end of its first member
FileDoneAbort(w) == Returned(w)

\* The per-file sequence is over: the next batch member, or the task returns
FileDone(w) ==
    IF wtask[w] = "batch" /\ midx[w] < BatchSize
    THEN /\ wpc' = [wpc EXCEPT ![w] = "file"]
         /\ midx' = [midx EXCEPT ![w] = @ + 1]
         /\ UNCHANGED <<wtask, attempt, expired>>
    ELSE Returned(w)

\* Applying a result to a file: a missing batch result or a failed media-info
\* insert ends it; fetchAdditionalMetadata may call a provider; otherwise the
\* destination path is generated (which may fail) and placement starts
FileStep(w) ==
    /\ wpc[w] = "file"
    /\ \E o \in {"fail", "enrich", "place"} :
        IF o = "fail"
        THEN FileDone(w)
        ELSE /\ wpc' = [wpc EXCEPT ![w] = o]
             /\ UNCHANGED <<wtask, attempt, midx, expired>>
    /\ UNCHANGED <<extVars, gateVars, poolDone, callerVars, queueVars, poolVars, held>>

\* The detail lookup returns (its error is only logged); path generation
FileEnrich(w) ==
    /\ wpc[w] = "enrich"
    /\ \E pathOk \in BOOLEAN :
        IF pathOk
        THEN /\ wpc' = [wpc EXCEPT ![w] = "place"]
             /\ UNCHANGED <<wtask, attempt, midx, expired>>
        ELSE FileDone(w)
    /\ UNCHANGED <<extVars, gateVars, poolDone, callerVars, queueVars, poolVars, held>>

\* fileOps.ProcessFile returns; the status is recorded
FilePlace(w) ==
    /\ wpc[w] = "place"
    /\ FileDone(w)
    /\ UNCHANGED <<extVars, gateVars, poolDone, callerVars, queueVars, poolVars, held>>

\* The task's own deadline (30 min / 2 h) fires
TaskDeadline(w) ==
    /\ w \in InFlight
    /\ ~CtxDone(w)
    /\ expired' = [expired EXCEPT ![w] = TRUE]
    /\ poolDone' = poolDone
    /\ GateAfterCancel(NewlyDone)
    /\ UNCHANGED <<extVars, callerVars, queueVars, poolVars, workerVars>>

\* The pool with an opaque processing function
NextPool ==
    \/ \E type \in {"single", "batch"} : AddTask(type)
    \/ AddTaskReturn
    \/ Start
    \/ StopCall
    \/ StopReturn
    \/ \E w \in Procs : WorkerTake(w)
    \/ \E w \in Procs : WorkerExit(w)
    \/ \E w \in Procs : ProcessorReturn(w)
    \/ \E w \in Procs : TaskDeadline(w)

SpecPool == Init /\ [][NextPool]_vars

\* The pool running the orchestrator's processTask
Next ==
    \/ \E type \in {"single", "batch"} : QueueTask(type)
    \/ Start
    \/ StopCall
    \/ StopReturn
    \/ \E w \in Procs : WorkerTake(w)
    \/ \E w \in Procs : WorkerExit(w)
    \/ \E w \in Procs : ProcBegin(w)
    \/ \E w \in Procs : ConvAcquire(w)
    \/ \E w \in Procs : ConvAcquireReturn(w)
    \/ \E w \in Procs : ConvFirstCall(w)
    \/ \E w \in Procs : ConvHandler(w)
    \/ \E w \in Procs : ConvFollowUp(w)
    \/ \E w \in Procs : FileStep(w)
    \/ \E w \in Procs : FileEnrich(w)
    \/ \E w \in Procs : FilePlace(w)
    \/ \E w \in Procs : TaskDeadline(w)

Spec == Init /\ [][Next]_vars

\* ---------------------------------------------------------------------------
\* SpecOrch: one task of the orchestrator.  Every call of the store, the
\* classifier, the providers and the file system returns nil or an error.
\* ---------------------------------------------------------------------------
MsgLLM == "LLM processing error"
MsgInfo == "Error creating media info record"
MsgPath == "Error generating destination path"
MsgFile == "Error processing file"
MsgNoResult == "No result found for this file in batch processing"

Modes == {"copy", "move", "symlink", "other"}

\* Where ProcessFile can put the file: destDir/name, or destDir/name (i) when
\* that path is taken
Targets == {"dir/name", "dir/name (1)"}

InitOrch ==
    /\ CoreIdle
    /\ orch \in OrchState({"single", "batch"}, BOOLEAN, Modes)
    /\ ScanIdle
    /\ GwIdle
    /\ ConvIdle

\* MediaFile records the task owns
Members == IF orch.kind = "single" THEN {1} ELSE Files

MinOf(S) == CHOOSE x \in S : \A y \in S : x <= y

\* p.db.UpdateMediaFile(mediaFile): the whole record is saved when the store
\* accepts the call (ok); nothing is saved when it returns an error
UpdateMediaFile(o, f, st, msg, dest, ok) ==
    IF ok
    THEN [o EXCEPT !.dbStatus[f] = st, !.dbErr[f] = msg, !.dbDest[f] = dest]
    ELSE [o EXCEPT !.lost[f] = @ \cup {"status"}]

\* createErrorNotification / createSuccessNotification: nothing when
\* notifications are disabled, else one record unless the store fails
CreateNotification(o, f, type, ok) ==
    IF ~o.notifEnabled THEN o
    ELSE IF ok THEN [o EXCEPT !.notes[f][type] = @ + 1]
    ELSE [o EXCEPT !.lost[f] = @ \cup {"note"}]

\* batchFiles[i] for the i of mediaFile f in mediaFiles: batchFiles holds every
\* member in order, mediaFiles only the loaded ones
BatchFileAt(o, f) == Cardinality({g \in o.loaded : g <= f})

\* batchFile.Status = st; p.db.UpdateBatchProcessFile(&batchFile) in the
\* member loop (its error is ignored or logged)
UpdateBatchProcessFile(o, st) ==
    IF o.kind = "batch" THEN [o EXCEPT !.bfCall[o.bf] = st] ELSE o

\* (mutant) a member loop that does not advance
NextFileAgain(o, f, e) ==
    IF o.kind = "batch"
    THEN [o EXCEPT !.target = "", !.pc = "mstatus"]
    ELSE [o EXCEPT !.pc = IF e THEN "error" ELSE "done"]

\* After file f: a single-file task returns (an error if e, else nil); a batch
\* goes to its next member
NextFile(o, f, e) ==
    LET rest == {g \in o.loaded : g > f}
    IN IF o.kind = "batch"
       THEN IF rest = {}
            THEN [o EXCEPT !.target = "", !.pc = "complete"]
            ELSE [o EXCEPT !.target = "", !.pc = "mstatus", !.cur = MinOf(rest),
                           !.bf = BatchFileAt(o, MinOf(rest))]
       ELSE [o EXCEPT !.pc = IF e THEN "error" ELSE "done"]

\* (mutant) a failure branch that only returns the error
FailFileSilent(o, f, c, msg, wOk, nOk) == NextFile([o EXCEPT !.cause[f] = c], f, TRUE)

\* A failure branch: status failed with the message (error ignored), in a
\* batch the member's status failed (error ignored), then the error
\* notification (error ignored), then return / continue
FailFile(o, f, c, msg, wOk, nOk) ==
    NextFile(
        CreateNotification(
            UpdateBatchProcessFile(
                UpdateMediaFile([o EXCEPT !.cause[f] = c], f, "failed", msg, "", wOk),
                "failed"),
            f, "error", nOk),
        f, TRUE)

\* ProcessMediaFile: status processing; a failed write returns the error
ProcessMediaFileBegin ==
    /\ orch.kind = "single"
    /\ orch.pc = "idle"
    /\ \E ok \in BOOLEAN :
        orch' = IF ok
                THEN UpdateMediaFile([orch EXCEPT !.cur = 1, !.pc = "classify"],
                                     1, "processing", "", "", TRUE)
                ELSE UpdateMediaFile([orch EXCEPT !.cur = 1, !.pc = "error",
                                                  !.cause[1] = "status"],
                                     1, "processing", "", "", FALSE)
    /\ UNCHANGED orchFrame

\* ProcessBatchFiles: batch status processing; a failed write returns the error
ProcessBatchFilesBegin ==
    /\ orch.kind = "batch"
    /\ orch.pc = "idle"
    /\ \E ok \in BOOLEAN :
        orch' = IF ok
                THEN [orch EXCEPT !.batchStatus = "processing", !.pc = "load"]
                ELSE [orch EXCEPT !.pc = "error"]
    /\ UNCHANGED orchFrame

\* GetBatchProcessFilesByBatchID, then GetMediaFileByID per member: a member
\* whose lookup fails is skipped
BatchLoad ==
    /\ orch.pc = "load"
    /\ \/ \E L \in SUBSET Files :
            orch' = [orch EXCEPT !.loaded = L, !.pc = "classify"]
       \/ \E wOk \in BOOLEAN :
            orch' = [orch EXCEPT !.pc = "error",
                                 !.batchStatus = IF wOk THEN "failed" ELSE @]
    /\ UNCHANGED orchFrame

\* llmClient.ProcessMediaFile returns a result or an error
ClassifySingle ==
    /\ orch.kind = "single"
    /\ orch.pc = "classify"
    /\ \/ orch' = [orch EXCEPT !.pc = "info"]
       \/ \E wOk, nOk \in BOOLEAN :
            orch' = FailFile(orch, orch.cur, "llm", MsgLLM, wOk, nOk)
    /\ UNCHANGED orchFrame

\* The member loop starts at the first loaded member, if any
EnterLoop(o) ==
    IF o.loaded = {}
    THEN [o EXCEPT !.pc = "complete"]
    ELSE [o EXCEPT !.pc = "mstatus", !.cur = MinOf(o.loaded),
                   !.bf = BatchFileAt(o, MinOf(o.loaded))]

\* llmClient.ProcessBatchFiles returns results (resultMap by filename) or an
\* error, on which the batch is marked failed and the call returns
ClassifyBatch ==
    /\ orch.kind = "batch"
    /\ orch.pc = "classify"
    /\ \/ \E R \in SUBSET orch.loaded :
            orch' = EnterLoop([orch EXCEPT !.hasResult = R])
       \/ \E wOk \in BOOLEAN :
            orch' = [orch EXCEPT !.pc = "error",
                                 !.batchStatus = IF wOk THEN "failed" ELSE @]
    /\ UNCHANGED orchFrame

\* Member loop: status processing; a failed write is logged and the loop
\* continues with the next member
MemberBegin ==
    /\ orch.pc = "mstatus"
    /\ LET f == orch.cur
       IN \E ok \in BOOLEAN :
            orch' = IF ok
                    THEN UpdateMediaFile([orch EXCEPT !.pc = "lookup"], f, "processing",
                                         orch.dbErr[f], orch.dbDest[f], TRUE)
                    ELSE NextFile(UpdateMediaFile([orch EXCEPT !.cause[f] = "status"],
                                                  f, "processing", "", "", FALSE), f, TRUE)
    /\ UNCHANGED orchFrame

\* (mutant) a member loop that goes on without a result
MemberLookupAny ==
    /\ orch.pc = "lookup"
    /\ orch' = [orch EXCEPT !.pc = "info"]
    /\ UNCHANGED orchFrame

\* Member loop: resultMap[mediaFile.OriginalName]
MemberLookup ==
    /\ orch.pc = "lookup"
    /\ IF orch.cur \in orch.hasResult
       THEN orch' = [orch EXCEPT !.pc = "info"]
       ELSE \E wOk, nOk \in BOOLEAN :
              orch' = FailFile(orch, orch.cur, "noresult", MsgNoResult, wOk, nOk)
    /\ UNCHANGED orchFrame

\* p.db.CreateMediaInfo(mediaInfo)
CreateMediaInfo ==
    /\ orch.pc = "info"
    /\ \/ orch' = [orch EXCEPT !.pc = "enrich"]
       \/ \E wOk, nOk \in BOOLEAN :
            orch' = FailFile(orch, orch.cur, "info", MsgInfo, wOk, nOk)
    /\ UNCHANGED orchFrame

\* (mutant) a failed detail lookup that fails the file
AfterEnrichFatal(o, ok) ==
    IF ok
    THEN [o EXCEPT !.pc = "path"]
    ELSE FailFile([o EXCEPT !.lost[o.cur] = @ \cup {"enrich"}], o.cur, "enrich",
                  "Error fetching metadata", TRUE, TRUE)

\* What follows p.fetchAdditionalMetadata, whose error (ok = FALSE) is logged
AfterEnrich(o, ok) ==
    IF ok
    THEN [o EXCEPT !.pc = "path"]
    ELSE [o EXCEPT !.pc = "path", !.lost[o.cur] = @ \cup {"enrich"}]

FetchAdditionalMetadata ==
    /\ orch.pc = "enrich"
    /\ \E ok \in BOOLEAN : orch' = AfterEnrich(orch, ok)
    /\ UNCHANGED orchFrame

\* p.generateDestinationPath(result)
GenerateDestinationPath ==
    /\ orch.pc = "path"
    /\ \/ orch' = [orch EXCEPT !.pc = "place"]
       \/ \E wOk, nOk \in BOOLEAN :
            orch' = FailFile(orch, orch.cur, "path", MsgPath, wOk, nOk)
    /\ UNCHANGED orchFrame

\* ProcessFile or one of its helpers returns an error to the orchestrator
PlaceError ==
    \E wOk, nOk \in BOOLEAN :
        orch' = FailFile(orch, orch.cur, "place", MsgFile, wOk, nOk)

\* fileOps.ProcessFile up to the switch on the mode: the checks of the source
\* and of the destination directory, the choice of destPath
ProcessFile ==
    /\ orch.pc = "place"
    /\ \/ /\ orch.srcAt[orch.cur]
          /\ orch.mode # "other"
          /\ \E t \in Targets :
               orch' = [orch EXCEPT !.target = t,
                                    !.pc = CASE orch.mode = "copy" -> "copy_open"
                                             [] orch.mode = "move" -> "rename"
                                             [] orch.mode = "symlink" -> "symlink"]
       \/ PlaceError
    /\ UNCHANGED orchFrame

\* (mutant) the source removed whatever the state of the destination
SourceGoneEarly(o, f) == [o EXCEPT !.srcAt[f] = FALSE, !.pc = "placed"]

\* The file system after the source of f is renamed to, or removed after
\* being copied to, its destination
SourceGone(o, f) == [o EXCEPT !.srcAt[f] = FALSE, !.dst[f] = "complete", !.pc = "placed"]

\* moveFile: os.Rename; on its error the copy-then-delete fallback
MoveRename ==
    /\ orch.pc = "rename"
    /\ \/ orch.srcAt[orch.cur] /\ orch' = SourceGone(orch, orch.cur)
       \/ orch' = [orch EXCEPT !.pc = "copy_open"]
    /\ UNCHANGED orchFrame

\* copyFile: os.Open(sourcePath) and os.Create(destPath)
CopyOpen ==
    /\ orch.pc = "copy_open"
    /\ \/ /\ orch.srcAt[orch.cur]
          /\ orch' = [orch EXCEPT !.dst[orch.cur] = "partial", !.pc = "copy_write"]
       \/ PlaceError
    /\ UNCHANGED orchFrame

\* copyFile: io.Copy and destFile.Sync()
CopyWrite ==
    /\ orch.pc = "copy_write"
    /\ \/ orch' = [orch EXCEPT !.dst[orch.cur] = "complete", !.pc = "copy_perm"]
       \/ PlaceError
    /\ UNCHANGED orchFrame

\* copyFile: os.Stat(sourcePath) and os.Chmod(destPath); copyFile returns
CopyPerm ==
    /\ orch.pc = "copy_perm"
    /\ \/ /\ orch.srcAt[orch.cur]
          /\ orch' = [orch EXCEPT !.pc = IF orch.mode = "move" THEN "remove" ELSE "placed"]
       \/ PlaceError
    /\ UNCHANGED orchFrame

\* moveFile: os.Remove(sourcePath) after the copy
MoveRemove ==
    /\ orch.pc = "remove"
    /\ \/ orch' = SourceGone(orch, orch.cur)
       \/ PlaceError
    /\ UNCHANGED orchFrame

\* symlinkFile: os.Symlink(absSourcePath, destPath)
SymlinkFile ==
    /\ orch.pc = "symlink"
    /\ \/ orch' = [orch EXCEPT !.dst[orch.cur] = "complete", !.pc = "placed"]
       \/ PlaceError
    /\ UNCHANGED orchFrame

\* (mutant) a success write that leaves the destination path out
AfterPlacedNoPath(o, ok) ==
    [UpdateMediaFile(o, o.cur, "success", "", "", ok) EXCEPT !.pc = "notify"]

\* ProcessFile returned destFilePath: status success with it.  On a failed
\* write ProcessMediaFile returns the error; the member loop logs it, saves
\* the member's status success (error logged) and goes on
AfterPlaced(o, ok) ==
    LET f == o.cur
        w == UpdateMediaFile(o, f, "success", "", o.target, ok)
    IN IF ok \/ o.kind = "batch"
       THEN [UpdateBatchProcessFile(w, "success") EXCEPT !.pc = "notify"]
       ELSE [w EXCEPT !.pc = "error", !.cause[f] = "write"]

MarkSuccess ==
    /\ orch.pc = "placed"
    /\ \E ok \in BOOLEAN : orch' = AfterPlaced(orch, ok)
    /\ UNCHANGED orchFrame

\* createMetadataFiles (a stub), then createSuccessNotification (error ignored)
NotifySuccess ==
    /\ orch.pc = "notify"
    /\ \E ok \in BOOLEAN :
        orch' = NextFile(CreateNotification(orch, orch.cur, "success", ok), orch.cur, FALSE)
    /\ UNCHANGED orchFrame

\* After the member loop: batch status completed; a failed write is returned
BatchComplete ==
    /\ orch.pc = "complete"
    /\ \E ok \in BOOLEAN :
        orch' = IF ok
                THEN [orch EXCEPT !.pc = "done", !.batchStatus = "completed"]
                ELSE [orch EXCEPT !.pc = "error"]
    /\ UNCHANGED orchFrame

NextOrch ==
    \/ ProcessMediaFileBegin
    \/ ProcessBatchFilesBegin
    \/ BatchLoad
    \/ ClassifySingle
    \/ ClassifyBatch
    \/ MemberBegin
    \/ MemberLookup
    \/ CreateMediaInfo
    \/ FetchAdditionalMetadata
    \/ GenerateDestinationPath
    \/ ProcessFile
    \/ MoveRename
    \/ CopyOpen
    \/ CopyWrite
    \/ CopyPerm
    \/ MoveRemove
    \/ SymlinkFile
    \/ MarkSuccess
    \/ NotifySuccess
    \/ BatchComplete

SpecOrch == InitOrch /\ [][NextOrch]_vars

\* ---------------------------------------------------------------------------
\* SpecScan: scan passes (Scan, then scanAndProcess) against the store while
\* the orchestrator takes the records through their statuses.
\* SpecPass: scan passes and file-watcher events against the store, over every
\* choice of the allowed files and of the layout of the two directories.
\* Fields of scan:
\*   rec, n     status of the MediaFile row of each path, and how many rows
\*   surv       the paths the walk let through (allowed, not excluded, and
\*              the lookup returned an error)
\*   sub        the kinds of task each path was made a part of
\*   ev         the path whose watcher event is between lookup and create
\*   full       every create of the last pass succeeded or met an existing row
\* ---------------------------------------------------------------------------
InitScan == CoreIdle /\ ExtIdle

InitPass ==
    CoreIdle /\ OrchIdle /\ GwIdle /\ ConvIdle /\ scan \in ScanState(SUBSET Paths, BOOLEAN)

\* s.db.GetMediaFileByPath(path): the record when there is one, gorm's
\* record-not-found error when there is none, or any other error of the store
LookupOutcomes(r) == IF r = "none" THEN {"notfound", "error"} ELSE {"found", "error"}

\* (mutant) a store without the unique index on original_path
UniqueOkNoIndex(s, p) == TRUE

\* The unique index on MediaFile.OriginalPath accepts a row for p
UniqueOk(s, p) == s.n[p] = 0

\* db.CreateMediaFile succeeded for the paths P
InsertRows(s, P) ==
    [s EXCEPT !.n = [p \in Paths |-> IF p \in P THEN @[p] + 1 ELSE @[p]],
              !.rec = [p \in Paths |-> IF p \in P /\ s.n[p] = 0 THEN "pending" ELSE @[p]]]

\* Scan: a new ScanResult, then filepath.Walk
ScanBegin ==
    /\ scan.pc = "idle"
    /\ scan' = [scan EXCEPT !.pc = "walk", !.pos = 1]
    /\ UNCHANGED scanFrame

\* The walk function on path p: a file that is no video or is excluded is
\* passed over; so is one whose lookup returns no error; any other is
\* appended to NewFiles and to BatchDirs[dir]
Visited(s, p, video, o) ==
    LET n == [s EXCEPT !.pos = p + 1, !.pc = IF p = MaxPaths THEN "filter" ELSE "walk",
                       !.surv = IF video /\ o # "found" THEN @ \cup {p} ELSE @]
    IN IF ~video \/ o = "found"
       THEN n
       ELSE [n EXCEPT !.newFiles = Append(@, p),
                      !.batchDirs[DirOf(p)] = Append(@, p)]

ScanVisit ==
    /\ scan.pc = "walk"
    /\ LET p == scan.pos
       IN IF p \in scan.video
          THEN \E o \in LookupOutcomes(scan.rec[p]) : scan' = Visited(scan, p, TRUE, o)
          ELSE scan' = Visited(scan, p, FALSE, "notfound")
    /\ UNCHANGED scanFrame

\* (mutant) a filter that keeps only the directories above the threshold
FilteredAbove(q) == IF Len(q) > BatchThreshold THEN q ELSE <<>>

\* Scan: a directory below the batch threshold is deleted from BatchDirs
Filtered(q) == IF Len(q) >= BatchThreshold THEN q ELSE <<>>

ScanFilter ==
    /\ scan.pc = "filter"
    /\ scan' = [scan EXCEPT !.pc = "reported",
                            !.batchDirs = [d \in Dirs |-> Filtered(scan.batchDirs[d])]]
    /\ UNCHANGED scanFrame

SeqSet(q) == {q[i] : i \in 1..Len(q)}

\* The paths a ScanResult names, as new file or as batch member
Reported(s) == SeqSet(s.newFiles) \cup UNION {SeqSet(s.batchDirs[d]) : d \in Dirs}

\* The directories of BatchDirs
BatchDirsOf(s) == {d \in Dirs : s.batchDirs[d] # <<>>}

\* strings.HasPrefix(file, dir): the path of p begins with the path of d
HasDirPrefix(s, d, p) == DirOf(p) = d \/ (s.nested /\ d = 1 /\ DirOf(p) = 2)

\* scanAndProcess on the ScanResult: for the directories of BatchDirs whose
\* CreateBatchProcess succeeds (BOK) a batch task with a pending row for each
\* file whose CreateMediaFile succeeds (C); for each file of NewFiles that has
\* no directory of BatchDirs as prefix a single-file task, if its
\* CreateMediaFile succeeds.  A create fails on a path that has a row.
ScanConsume ==
    /\ scan.pc = "reported"
    /\ \E BOK \in SUBSET BatchDirsOf(scan) :
       \E C \in SUBSET {p \in Reported(scan) : UniqueOk(scan, p)} :
        LET members == {p \in C : DirOf(p) \in BOK /\ p \in SeqSet(scan.batchDirs[DirOf(p)])}
            singles == {p \in C : /\ p \in SeqSet(scan.newFiles)
                                  /\ ~\E d \in BatchDirsOf(scan) : HasDirPrefix(scan, d, p)}
            made == members \cup singles
            s1 == InsertRows(scan, made)
        IN scan' = [s1 EXCEPT !.pc = "idle", !.pos = 0, !.newFiles = <<>>,
                              !.batchDirs = [d \in Dirs |-> <<>>],
                              !.surv = {},
                              !.sub = [p \in Paths |->
                                         @[p] \cup (IF p \in members THEN {"batch"} ELSE {})
                                              \cup (IF p \in singles THEN {"single"} ELSE {})],
                              !.full = /\ BOK = BatchDirsOf(scan)
                                       /\ C = {p \in Reported(scan) : UniqueOk(scan, p)}]
    /\ UNCHANGED scanFrame

\* handleFileEvent for a create or modify event on video path p, up to the
\* lookup: it goes on to CreateMediaFile unless the lookup returns no error
WatchEvent(p) ==
    /\ scan.ev = 0
    /\ p \in scan.video
    /\ \E o \in LookupOutcomes(scan.rec[p]) \ {"found"} : scan' = [scan EXCEPT !.ev = p]
    /\ UNCHANGED scanFrame

\* handleFileEvent: s.CreateMediaFile(event.Path) returns
WatchCreate ==
    /\ scan.ev # 0
    /\ \E ok \in BOOLEAN :
        scan' = IF ok /\ UniqueOk(scan, scan.ev)
                THEN [InsertRows(scan, {scan.ev}) EXCEPT !.ev = 0]
                ELSE [scan EXCEPT !.ev = 0]
    /\ UNCHANGED scanFrame

\* The orchestrator takes a record through its statuses
RecordProgress(p) ==
    /\ \E st \in {"processing", "success", "failed"} :
        /\ <<scan.rec[p], st>> \in {<<"pending", "processing">>,
                                    <<"processing", "success">>,
                                    <<"processing", "failed">>}
        /\ scan' = [scan EXCEPT !.rec[p] = st]
    /\ UNCHANGED scanFrame

NextScan ==
    \/ ScanBegin
    \/ ScanVisit
    \/ ScanFilter
    \/ ScanConsume
    \/ \E p \in Paths : RecordProgress(p)

SpecScan == InitScan /\ [][NextScan]_vars

NextPass ==
    \/ ScanBegin
    \/ ScanVisit
    \/ ScanFilter
    \/ ScanConsume
    \/ \E p \in Paths : WatchEvent(p)
    \/ WatchCreate

SpecPass == InitPass /\ [][NextPass]_vars

\* ---------------------------------------------------------------------------
\* SpecBucket: one TokenBucketRateLimiter, the clock (in ticks of
\* 1/TicksPerSecond s) and the goroutines calling Wait and TryWait.
\* Fields of gw:
\*   now, last, tokens   the clock, tb.lastRefill, tb.tokens (in units)
\*   pc, due, wake       a caller's position, when its timer fires, and what
\*                       ended its last sleep: "timer", "cancel" (ctx.Done()
\*                       closed during the sleep) or "closed" (it was closed
\*                       before the select)
\*   done, res           the caller's context is cancelled; its last result
\*   tries0, succ0       TryWait calls (counted up to Burst + 1), and
\*                       successful ones, at time 0 before any Wait
\*   waited              Wait has been called
\*   emptiedAt           when a TryWait last took the last token with no TryWait
\*                       succeeding since, else -1
\*   rows, lk, out       the API cache and the lookups (SpecCache)
\* ---------------------------------------------------------------------------
InitBucket == CoreIdle /\ ExtIdle

MinNum(a, b) == IF a < b THEN a ELSE b

\* (mutant) a refill without the cap
RefillNoCap(b) ==
    [b EXCEPT !.tokens = @ + (b.now - b.last) * Rate, !.last = b.now]

\* refill: tokens = min(tokens + elapsed * rate, bucketSize)
Refill(b) ==
    [b EXCEPT !.tokens = MinNum(@ + (b.now - b.last) * Rate, BurstUnits), !.last = b.now]

\* (mutant) any fraction of a token is enough
HasTokenAny(b) == b.tokens > 0

\* tb.tokens >= 1.0
HasToken(b) == b.tokens >= Whole

\* tb.tokens -= 1.0
Take(b) == [b EXCEPT !.tokens = @ - Whole]

\* TryWait: under the mutex, refill, then take a token if there is one
TryWait(c) ==
    /\ gw.pc[c] = "idle"
    /\ LET b1 == Refill(gw)
           ok == HasToken(b1)
           b2 == IF ok THEN Take(b1) ELSE b1
           first == gw.now = 0 /\ ~gw.waited
       IN gw' = [b2 EXCEPT !.res[c] = IF ok THEN "true" ELSE "false",
                           !.tries0 = IF first THEN MinNum(@ + 1, Burst + 1) ELSE @,
                           !.succ0 = IF first /\ ok THEN @ + 1 ELSE @,
                           !.emptiedAt = IF ok THEN (IF b2.tokens <= 0 THEN gw.now ELSE -1)
                                         ELSE @]
    /\ UNCHANGED gwFrame

\* Wait: waitTime = (1.0 - tokens) / rate, as a Duration (truncated)
SleepTicks(b) == (Whole - b.tokens) \div Rate

\* Wait up to the select: under the mutex, refill and take a token if there
\* is one; else unlock and sleep in the select, which a context that is
\* already cancelled ends at once
WaitEnter(b, c) ==
    LET b1 == Refill(b)
    IN IF HasToken(b1)
       THEN [Take(b1) EXCEPT !.res[c] = "nil", !.wake[c] = ""]
       ELSE [b1 EXCEPT !.pc[c] = "sleep",
                       !.due[c] = b1.now + SleepTicks(b1),
                       !.wake[c] = IF b1.done[c] THEN "closed" ELSE "",
                       !.res[c] = "none"]

\* A caller of its own calls Wait
WaitCall(c) ==
    /\ gw.pc[c] = "idle"
    /\ gw' = [WaitEnter(gw, c) EXCEPT !.waited = TRUE]
    /\ UNCHANGED gwFrame

\* time.After(waitTime) delivers to the sleeping caller
TimerFire(c) ==
    /\ gw.pc[c] = "sleep"
    /\ gw.wake[c] = ""
    /\ gw.now >= gw.due[c]
    /\ gw' = [gw EXCEPT !.wake[c] = "timer"]
    /\ UNCHANGED gwFrame

\* The clock advances by one tick; a timer that is due fires first
Tick ==
    /\ gw.now < MaxClock
    /\ \A c \in Callers : ~(gw.pc[c] = "sleep" /\ gw.wake[c] = "" /\ gw.due[c] <= gw.now)
    /\ gw' = [gw EXCEPT !.now = @ + 1]
    /\ UNCHANGED gwFrame

\* The caller's context is cancelled: ctx.Done() ends a sleep that no timer
\* has ended
CtxCancel(c) ==
    /\ ~gw.done[c]
    /\ gw' = [gw EXCEPT !.done[c] = TRUE,
                        !.wake[c] = IF gw.pc[c] = "sleep" /\ @ = "" THEN "cancel" ELSE @]
    /\ UNCHANGED gwFrame

\* (mutant) a cancelled sleeper that takes its token all the same
AfterSleepTaking(b, c) ==
    [Take(Refill(b)) EXCEPT !.res[c] = IF b.wake[c] = "timer" THEN "nil" ELSE "err"]

\* Wait after the select: on the timer, lock, refill, take a token whatever
\* the count, return nil; on ctx.Done(), return ctx.Err()
AfterSleep(b, c) ==
    IF b.wake[c] = "timer"
    THEN [Take(Refill(b)) EXCEPT !.res[c] = "nil"]
    ELSE [b EXCEPT !.res[c] = "err"]

WaitReturn(c) ==
    /\ gw.pc[c] = "sleep"
    /\ gw.wake[c] # ""
    /\ gw' = [AfterSleep(gw, c) EXCEPT !.pc[c] = "idle", !.due[c] = 0]
    /\ UNCHANGED gwFrame

NextBucket ==
    \/ \E c \in Callers : TryWait(c)
    \/ \E c \in Callers : WaitCall(c)
    \/ \E c \in Callers : TimerFire(c)
    \/ Tick
    \/ \E c \in Callers : CtxCancel(c)
    \/ \E c \in Callers : WaitReturn(c)

SpecBucket == InitBucket /\ [][NextBucket]_vars

\* ---------------------------------------------------------------------------
\* SpecCache: the lookups of a provider client (TMDBClient.SearchMovie and its
\* like) with the cache enabled: the cache read, the limiter's Wait, the
\* provider call and the cache write, over the bucket and clock of SpecBucket.
\* The contexts of the lookups stay live here; SpecBucket has the cancelled
\* Wait.
\* Fields of gw:
\*   rows    the api_caches table, in the order of the primary key; a row is
\*           [key, exp] (Query, ExpiresAt), and its Response, the payload the
\*           provider produced SearchTTL before exp, is named by exp
\*   lk      a caller's lookup: its position ("idle", "limit" before Wait,
\*           "waiting" inside Wait, "call" with the request at the provider),
\*           its key, and before Wait the error of its cache read
\*   out     what the last lookup to return returned, and to whom: "cache"
\*           or "provider" with the payload, "limited" (the limiter's error)
\*           or "error" (the provider's)
\* ---------------------------------------------------------------------------
InitCache == CoreIdle /\ ExtIdle

\* SearchMovie returns to caller c
LookupReturned(b, c, src, val) ==
    [b EXCEPT !.lk[c] = LookupIdle, !.out = [to |-> c, src |-> src, val |-> val]]

\* (mutant) a cache read that does not look at the expiry
UnexpiredAny(b, k) ==
    LET Match(r) == r.key = k
    IN SelectSeq(b.rows, Match)

\* The rows of GetAPICache's WHERE clause: query = ? AND expires_at > now
Unexpired(b, k) ==
    LET Match(r) == r.key = k /\ r.exp > b.now
    IN SelectSeq(b.rows, Match)

\* GetAPICache: First() of those rows, gorm.ErrRecordNotFound when there is
\* none, or the store's error
ReadOutcomes(b, k) ==
    IF Unexpired(b, k) = <<>> THEN {"notfound", "error"} ELSE {"", "error"}

\* (mutant) a hit that goes through the limiter all the same
CacheHitLimited(b, c, k) ==
    LookupReturned(WaitEnter(b, c), c, "cache", Head(Unexpired(b, k)).exp)

\* err == nil: the payload of the row is returned
CacheHit(b, c, k) ==
    LookupReturned(b, c, "cache", Head(Unexpired(b, k)).exp)

\* SearchMovie up to the limiter: the cache read; a row is returned at once,
\* any error of the read leads on to the limiter
LookupBegin(c, k) ==
    /\ gw.lk[c].pc = "idle"
    /\ gw.pc[c] = "idle"
    /\ \E o \in ReadOutcomes(gw, k) :
          gw' = IF o = ""
                THEN CacheHit(gw, c, k)
                ELSE [gw EXCEPT !.lk[c] = [pc |-> "limit", key |-> k, miss |-> o]]
    /\ UNCHANGED gwFrame

\* c.rateLimiter.Wait(ctx, provider) is called: it returns nil at once and the
\* provider is called, or it sleeps
LookupWait(c) ==
    /\ gw.lk[c].pc = "limit"
    /\ LET b == WaitEnter(gw, c)
       IN gw' = IF b.pc[c] = "sleep"
                THEN [b EXCEPT !.lk[c].pc = "waiting", !.lk[c].miss = ""]
                ELSE [b EXCEPT !.lk[c].pc = "call", !.lk[c].miss = "", !.res[c] = "none"]
    /\ UNCHANGED gwFrame

\* Wait has returned to the lookup after a sleep: its error ends the lookup,
\* else the provider is called
LookupLimited(c) ==
    /\ gw.lk[c].pc = "waiting"
    /\ gw.pc[c] = "idle"
    /\ LET b == [gw EXCEPT !.res[c] = "none", !.wake[c] = ""]
       IN gw' = IF gw.res[c] = "nil"
                THEN [b EXCEPT !.lk[c].pc = "call"]
                ELSE LookupReturned(b, c, "limited", 0)
    /\ UNCHANGED gwFrame

\* (mutant) a failed call that leaves a row behind
ProviderFailedCaching(b, c) ==
    [LookupReturned(b, c, "error", 0)
        EXCEPT !.rows = IF Len(@) < MaxRows
                        THEN Append(@, [key |-> b.lk[c].key, exp |-> b.now + CacheTTL])
                        ELSE @]

\* The provider's error is returned
ProviderFailed(b, c) ==
    LookupReturned(b, c, "error", 0)

\* (mutant) a write-back whose row is expired from the start
ProviderAnsweredStale(b, c, written) ==
    [LookupReturned(b, c, "provider", b.now + CacheTTL)
        EXCEPT !.rows = IF written
                        THEN Append(@, [key |-> b.lk[c].key, exp |-> b.now])
                        ELSE @]

\* The provider's result is returned; CreateAPICache has added a row that
\* expires SearchTTL from now, or has failed (its error is dropped)
ProviderAnswered(b, c, written) ==
    [LookupReturned(b, c, "provider", b.now + CacheTTL)
        EXCEPT !.rows = IF written
                        THEN Append(@, [key |-> b.lk[c].key, exp |-> b.now + CacheTTL])
                        ELSE @]

\* The provider call ends; a full table stands for a store that fails
ProviderReply(c) ==
    /\ gw.lk[c].pc = "call"
    /\ \/ gw' = ProviderFailed(gw, c)
       \/ \E written \in (IF Len(gw.rows) < MaxRows THEN BOOLEAN ELSE {FALSE}) :
             gw' = ProviderAnswered(gw, c, written)
    /\ UNCHANGED gwFrame

NextCache ==
    \/ \E c \in Callers, k \in Keys : LookupBegin(c, k)
    \/ \E c \in Callers : LookupWait(c)
    \/ \E c \in Callers : LookupLimited(c)
    \/ \E c \in Callers : ProviderReply(c)
    \/ \E c \in Callers : TimerFire(c)
    \/ \E c \in Callers : WaitReturn(c)
    \/ Tick

SpecCache == InitCache /\ [][NextCache]_vars

\* ---------------------------------------------------------------------------
\* SpecConv: the tasks that run at once on the workers, each from
\* registerFunctionHandlers to the return of the classifier
\* (llm.ProcessMediaFile / ProcessBatchFiles), on the one LLM client.
\* Fields of conv:
\*   registry  the keys of l.functionMap
\*   llm       the slots of the LLM gate that are taken
\*   pc        a task's position: "idle", "reg" (writing the registry), "acq",
\*             "call0" (the first request is out), "lookup" (reading the
\*             registry), "handler", "calln" (a follow-up request is out),
\*             "dead" (the process died of a fatal error)
\*   i         the index of the retry loop
\*   rounds    the tool-call rounds completed
\*   name      the tool name the model requested
\*   res       what the classifier returned: "ok", or the error "acquire",
\*             "transport", "unknown", "handler" or "parse"
\* ---------------------------------------------------------------------------
InitConv == CoreIdle /\ ExtIdle

\* Another task is writing the map
WriterBeside(b, c) == \E d \in Callers \ {c} : b.pc[d] = "reg"

\* Another task is writing or reading the map
AccessBeside(b, c) == \E d \in Callers \ {c} : b.pc[d] \in {"reg", "lookup"}

\* The runtime's "fatal error: concurrent map ..." ends the process
Fatal(b) == [b EXCEPT !.pc = [c \in Callers |-> "dead"]]

\* processTask has updated the record's status and calls
\* registerFunctionHandlers: the writes of l.functionMap begin
TaskRegister(c) ==
    /\ conv.pc[c] = "idle"
    /\ conv' = [conv EXCEPT !.pc[c] = "reg", !.i[c] = 0, !.rounds[c] = 0,
                            !.name[c] = "", !.res[c] = "none"]
    /\ UNCHANGED convFrame

\* The three RegisterFunction calls are through; a map written while another
\* task writes or reads it may instead end the process
RegisterDone(c) ==
    /\ conv.pc[c] = "reg"
    /\ \/ conv' = [conv EXCEPT !.pc[c] = "acq", !.registry = Tools]
       \/ AccessBeside(conv, c) /\ conv' = Fatal(conv)
    /\ UNCHANGED convFrame

\* The classifier returns r to the task; the deferred Release has run
LlmExit(b, c, r) ==
    [b EXCEPT !.pc[c] = "idle", !.res[c] = r, !.name[c] = "", !.llm = @ - 1]

\* l.semaphore.Acquire(ctx): the slot, or the error of a context that is done
LlmAcquire(c) ==
    /\ conv.pc[c] = "acq"
    /\ \/ /\ conv.llm < MaxConcurrentLLM
          /\ conv' = [conv EXCEPT !.pc[c] = "call0", !.llm = @ + 1]
       \/ conv' = [conv EXCEPT !.pc[c] = "idle", !.res[c] = "acquire"]
    /\ UNCHANGED convFrame

\* What a model call comes back with: an error, a final answer that parses or
\* does not, or the request of a tool
Replies == {"err", "final_ok", "final_bad"} \cup Requested

\* (mutant) a conversation cut off at its second tool request
AfterReplyCapped(b, c, r) ==
    CASE r \in Requested /\ b.rounds[c] = 0 -> [b EXCEPT !.pc[c] = "lookup", !.name[c] = r, !.i[c] = 0]
      [] r = "final_bad" -> LlmExit(b, c, "parse")
      [] OTHER -> LlmExit(b, c, "ok")

\* The loop over function calls: a reply that requests a tool goes to the
\* registry, a final reply is parsed and returned
AfterReply(b, c, r) ==
    CASE r \in Requested -> [b EXCEPT !.pc[c] = "lookup", !.name[c] = r, !.i[c] = 0]
      [] r = "final_ok" -> LlmExit(b, c, "ok")
      [] r = "final_bad" -> LlmExit(b, c, "parse")

\* (mutant) a retry loop that runs once more
FirstFailedAgain(b, c) ==
    IF b.i[c] <= MaxRetries
    THEN [b EXCEPT !.i[c] = @ + 1]
    ELSE LlmExit(b, c, "transport")

\* The first request failed: at i = MaxRetries the error is returned, else
\* the loop sleeps and sends it again
FirstFailed(b, c) ==
    IF b.i[c] < MaxRetries
    THEN [b EXCEPT !.i[c] = @ + 1]
    ELSE LlmExit(b, c, "transport")

\* The first request, inside the loop i = 0..MaxRetries, is answered
LlmFirstReply(c, r) ==
    /\ conv.pc[c] = "call0"
    /\ r \in Requested => conv.rounds[c] < MaxRounds
    /\ conv' = IF r = "err" THEN FirstFailed(conv, c) ELSE AfterReply(conv, c, r)
    /\ UNCHANGED convFrame

\* handler, ok := l.functionMap[name]
Registered(b, n) == n \in b.registry

\* The registry is read: an unknown name ends the call; a map read while
\* another task writes it may instead end the process
LlmLookup(c) ==
    /\ conv.pc[c] = "lookup"
    /\ \/ conv' = IF Registered(conv, conv.name[c])
                  THEN [conv EXCEPT !.pc[c] = "handler"]
                  ELSE LlmExit(conv, c, "unknown")
       \/ WriterBeside(conv, c) /\ conv' = Fatal(conv)
    /\ UNCHANGED convFrame

\* The handler runs its provider search: its result is added to the messages
\* and sent, or its error is returned
LlmHandler(c) ==
    /\ conv.pc[c] = "handler"
    /\ \/ conv' = [conv EXCEPT !.pc[c] = "calln", !.rounds[c] = @ + 1, !.name[c] = ""]
       \/ conv' = LlmExit(conv, c, "handler")
    /\ UNCHANGED convFrame

\* The request that follows a tool result is answered: its error is returned
\* at once
LlmFollowUp(c, r) ==
    /\ conv.pc[c] = "calln"
    /\ r \in Requested => conv.rounds[c] < MaxRounds
    /\ conv' = IF r = "err" THEN LlmExit(conv, c, "transport") ELSE AfterReply(conv, c, r)
    /\ UNCHANGED convFrame

NextConv ==
    \/ \E c \in Callers : TaskRegister(c)
    \/ \E c \in Callers : RegisterDone(c)
    \/ \E c \in Callers : LlmAcquire(c)
    \/ \E c \in Callers, r \in Replies : LlmFirstReply(c, r)
    \/ \E c \in Callers : LlmLookup(c)
    \/ \E c \in Callers : LlmHandler(c)
    \/ \E c \in Callers, r \in Replies : LlmFollowUp(c, r)

SpecConv == InitConv /\ [][NextConv]_vars

\* ---------------------------------------------------------------------------
\* Properties of the gates
\* ---------------------------------------------------------------------------

\* C1: for each gate, the callers that returned successfully from Acquire and
\* have not yet released never outnumber the gate's capacity, provided every
\* Release is made by a caller that holds a slot (SpecGate).
C1_GateNeverOverCapacity ==
    \A g \in Gates : Cardinality(Holding(g)) <= GateCap(g)

C1_Witness ==
    \E g \in Gates : Cardinality(Holding(g)) = GateCap(g) /\ sendq[g] # <<>>

\* C2: with more callers than slots, a live caller waits exactly when the gate
\* is full (so the first N acquire without waiting and nobody waits beside a
\* free slot), a waiting caller is granted a slot only in a step in which a
\* holder of that gate releases, and a release with callers waiting hands the
\* slot to the longest-waiting one.
C2_WaitOnlyWhenFull ==
    \A g \in Gates : sendq[g] # <<>> => sem[g] = GateCap(g)

C2_StepRule ==
    /\ \A p \in Procs :
        /\ (cpc[p] = "idle" /\ cpc'[p] = "parked")
              => (sem[cgate'[p]] = GateCap(cgate'[p]) /\ ~CtxDone(p))
        /\ (cpc[p] = "idle" /\ cpc'[p] = "held" /\ ~CtxDone(p))
              => (sem[cgate'[p]] < GateCap(cgate'[p]) /\ sem'[cgate'[p]] = sem[cgate'[p]] + 1)
        /\ (cpc[p] = "parked" /\ cpc'[p] = "held") => wake[p] = "ok"
        /\ (wake[p] = "" /\ wake'[p] = "ok")
              => \E h \in Holding(cgate[p]) : cpc'[h] = "idle"
    /\ \A h \in Procs :
        (cpc[h] = "held" /\ cpc'[h] = "idle" /\ sendq[cgate[h]] # <<>>)
              => (wake'[Head(sendq[cgate[h]])] = "ok"
                  /\ sem'[cgate[h]] = GateCap(cgate[h]))

C2_Backpressure == [] C2_WaitOnlyWhenFull /\ [][C2_StepRule]_vars

C2_Witness ==
    \E p \in Procs : /\ cpc[p] = "parked" /\ wake[p] = "ok" /\ cgate[p] = "llm"
                     /\ Cardinality(Holding("llm")) = MaxConcurrentLLM - 1

\* C7: a Release by a caller that holds no slot of the gate leaves the gate's
\* occupied slots as they were, whatever other callers hold.
C7_ReleaseNotHeldIsNoOp ==
    [][(\E p \in Procs, g \in Gates : CallerReleaseNotHeld(p, g))
          => UNCHANGED <<sem, sendq, wake>>]_vars

\* C8: a caller whose context is cancelled while it is blocked in Acquire on a
\* full gate is woken by the cancellation, Acquire returns the cancellation
\* error, and the caller holds no slot afterwards.
C8_StepRule ==
    \A p \in Procs :
        /\ (cpc[p] = "parked" /\ wake[p] = "" /\ ~CtxDone(p) /\ CtxDone(p)')
              => (wake'[p] = "cancelled" /\ cpc'[p] = "parked")
        /\ (cpc[p] = "parked" /\ wake[p] = "cancelled")
              => \/ (cpc'[p] = "parked" /\ wake'[p] = "cancelled")
                 \/ (cpc'[p] = "idle" /\ cerr'[p] = "cancelled" /\ p \notin Holding(cgate[p])')

C8_CancelledWhileBlocked == [][C8_StepRule]_vars

C8_Witness ==
    \E p \in Procs : /\ cpc[p] = "parked" /\ wake[p] = "cancelled"
                     /\ sem[cgate[p]] = GateCap(cgate[p])

\* ---------------------------------------------------------------------------
\* Properties of the classifier conversation and the orchestrator (Spec)
\* ---------------------------------------------------------------------------
\* Positions inside a conversation: Acquire has returned nil and the
\* classifier has not returned
ConvPcs == {"call0", "handler", "calln"}
Conversations == {w \in Procs : wpc[w] \in ConvPcs}

\* Workers on whose behalf a token sits in the LLM gate's channel
SlotOwners == {w \in Procs : wpc[w] \in ConvPcs \/ (wpc[w] = "parked" /\ wake[w] = "ok")}

\* The step is taken by worker w
StepOf(w) == wpc'[w] # wpc[w] \/ attempt'[w] # attempt[w] \/ midx'[w] # midx[w]

\* C3: a conversation (single or batch) holds the LLM slot it acquired at
\* entry through every retry attempt and tool-call round, touching the gate
\* in none of these steps, and at most MaxConcurrentLLM conversations are in
\* progress over all workers.
C3_Held ==
    /\ Cardinality(Conversations) <= MaxConcurrentLLM
    /\ \A w \in Conversations : "llm" \in held[w]

C3_StepRule ==
    \A w \in Procs :
        (wpc[w] \in ConvPcs /\ wpc'[w] \in ConvPcs /\ StepOf(w))
            => UNCHANGED <<sem, sendq, wake, held>>

C3_SlotHeldForWholeConversation == [] C3_Held /\ [][C3_StepRule]_vars

C3_Witness ==
    \E a, b, c \in Procs :
        /\ wpc[a] = "calln" /\ wtask[a] = "batch"
        /\ wpc[b] = "call0" /\ attempt[b] = MaxRetries
        /\ wpc[c] = "parked" /\ wake[c] = ""

\* C4: the classifier releases the LLM slot exactly once on every return after
\* a successful Acquire, and when Acquire fails the task ends with the gate
\* untouched and no model call; so the gate's tokens are exactly the running
\* conversations (plus slots handed to workers about to resume), and none
\* when no conversation runs.
C4_Occupancy ==
    /\ sem["llm"] = Cardinality(SlotOwners)
    /\ \A w \in Procs : held[w] = IF w \in Conversations THEN {"llm"} ELSE {}

C4_StepRule ==
    \A w \in Procs :
        /\ (wpc[w] \in ConvPcs /\ wpc'[w] \notin ConvPcs)
              => IF sendq["llm"] = <<>>
                 THEN sem'["llm"] = sem["llm"] - 1 /\ UNCHANGED <<sendq, wake>>
                 ELSE /\ sem' = sem
                      /\ sendq'["llm"] = Tail(sendq["llm"])
                      /\ wake' = [wake EXCEPT ![Head(sendq["llm"])] = "ok"]
        /\ (wpc[w] \in {"acq", "parked"} /\ wpc'[w] \notin {"acq", "parked", "call0"})
              => (wpc'[w] = "idle" /\ sem' = sem /\ sendq' = sendq
                  /\ \A v \in Procs \ {w} : wake'[v] = wake[v])
        /\ (wpc[w] \notin ConvPcs /\ wpc'[w] \in ConvPcs)
              => (wpc[w] \in {"acq", "parked"} /\ wpc'[w] = "call0")

C4_ReleaseIffAcquired == [] C4_Occupancy /\ [][C4_StepRule]_vars

C4_Witness ==
    /\ Conversations = {}
    /\ sem["llm"] = 0
    /\ \E a, b \in Procs : /\ wpc[a] = "file"
                           /\ wpc[b] = "parked" /\ wake[b] = "cancelled"

\* C5: every file placement runs while its worker holds a file-operation
\* slot, so at most MaxConcurrentFileOp placements are in progress.
Placing == {w \in Procs : wpc[w] = "place"}

C5_PlacementBehindGate ==
    /\ \A w \in Placing : "fileop" \in held[w]
    /\ Cardinality(Placing) <= MaxConcurrentFileOp

\* C6: every provider call (a tool handler's search, an enrichment lookup)
\* runs while its worker holds a metadata-API slot, so at most
\* MaxConcurrentAPI provider calls are in flight.
ProviderCalls == {w \in Procs : wpc[w] \in {"handler", "enrich"}}

C6_ProviderCallBehindGate ==
    /\ \A w \in ProviderCalls : "api" \in held[w]
    /\ Cardinality(ProviderCalls) <= MaxConcurrentAPI

\* ---------------------------------------------------------------------------
\* Properties of the queues and of Stop (SpecPool)
\* ---------------------------------------------------------------------------
\* The step is a call of AddTask; its result is lastAdd'
AddStep == lastAdd = NoAdd /\ lastAdd' # NoAdd

QueuesUnchanged == UNCHANGED <<taskQueue, batchTaskQueue>>

Appended(type) ==
    IF type = "batch"
    THEN batchTaskQueue' = Append(batchTaskQueue, type) /\ taskQueue' = taskQueue
    ELSE taskQueue' = Append(taskQueue, type) /\ batchTaskQueue' = batchTaskQueue

\* C9 as stated: AddTask returns a queue-full error and leaves the queues
\* alone when the target queue holds QueueSize tasks, and otherwise appends
\* the task to its queue and returns no error.
C9_AsStated ==
    [][AddStep =>
        IF Len(QueueOf(lastAdd'.type)) >= QueueSize
        THEN lastAdd'.err = "full" /\ QueuesUnchanged
        ELSE lastAdd'.err = "nil" /\ Appended(lastAdd'.type)]_vars

\* C9 amended: AddTask never blocks; on a stopped pool it returns the
\* pool-stopped error and leaves the queues alone; otherwise it returns
\* queue-full with the queues unchanged when the target queue holds QueueSize
\* tasks, and else appends the task to its queue and returns no error.
C9_StepRule ==
    AddStep =>
        IF poolDone
        THEN lastAdd'.err = "stopped" /\ QueuesUnchanged
        ELSE IF Len(QueueOf(lastAdd'.type)) >= QueueSize
             THEN lastAdd'.err = "full" /\ QueuesUnchanged
             ELSE lastAdd'.err = "nil" /\ Appended(lastAdd'.type)

C9_NeverBlocks ==
    (started /\ lastAdd = NoAdd)
        => (ENABLED AddTask("single") /\ ENABLED AddTask("batch"))

C9_AddTask == [] C9_NeverBlocks /\ [][C9_StepRule]_vars

C9_Witness ==
    /\ lastAdd.err = "stopped"
    /\ Len(QueueOf(lastAdd.type)) < QueueSize

\* C10: once Stop has returned every worker has exited, so no processing
\* function is running; and the call of Stop cancels the context of every
\* task then in flight (and of any task taken later).
C10_Stopped ==
    /\ stopPc = "returned" => \A w \in Procs : wpc[w] = "exited"
    /\ stopPc # "no" => \A w \in InFlight : CtxDone(w)

C10_StepRule ==
    (stopPc = "no" /\ stopPc' = "waiting") => \A w \in InFlight : CtxDone(w)'

C10_StopDrains == [] C10_Stopped /\ [][C10_StepRule]_vars

C10_Witness ==
    /\ stopPc = "returned"
    /\ wg = 0
    /\ taskQueue # <<>>
    /\ batchTaskQueue # <<>>

\* ---------------------------------------------------------------------------
\* Properties of the orchestrator's records (SpecOrch)
\* ---------------------------------------------------------------------------
StatusSteps == {<<"pending", "processing">>, <<"processing", "success">>,
                <<"processing", "failed">>}

\* C11: the persisted status of every MediaFile changes only from pending to
\* processing and from processing to success or failed; a success or failed
\* status never changes again and no step writes pending.
C11_StepRule ==
    \A f \in Files :
        orch'.dbStatus[f] # orch.dbStatus[f]
            => <<orch.dbStatus[f], orch'.dbStatus[f]>> \in StatusSteps

C11_StatusMonotonic == [][C11_StepRule]_vars

C11_Witness ==
    /\ orch.kind = "batch"
    /\ orch.pc = "done"
    /\ \E f, g \in Files : orch.dbStatus[f] = "success" /\ orch.dbStatus[g] = "failed"

\* The steps whose failure takes the failure branch, and the branch's message
FailCauses == {"llm", "info", "path", "place"}

MsgOf(c) ==
    CASE c = "llm" -> MsgLLM
      [] c = "info" -> MsgInfo
      [] c = "path" -> MsgPath
      [] c = "place" -> MsgFile
      [] c = "noresult" -> MsgNoResult

C13_NoFileLeftBehind ==
    orch.pc \in {"done", "error"}
        => \A f \in Members : orch.dbStatus[f] \in {"success", "failed"}

\* The positions of the per-file sequence
FilePhase == {"file", "enrich", "place"}

\* C14: whatever way a task or a batch member ends, the worker that ran it
\* goes back to its loop (it exits only from the loop, on the pool's
\* cancellation) and can take the next queued task; and a batch that has
\* members left goes on with this member or the next one.
C14_StepRule ==
    \A w \in Procs :
        /\ (w \in InFlight /\ wpc'[w] \in {"new", "idle", "exited"}) => wpc'[w] = "idle"
        /\ (wpc[w] # "exited" /\ wpc'[w] = "exited") => (wpc[w] = "idle" /\ poolDone)
        /\ (wtask[w] = "batch" /\ wpc[w] \in FilePhase /\ midx[w] < BatchSize)
                => /\ wpc'[w] \in FilePhase
                   /\ wtask'[w] = "batch"
                   /\ midx'[w] \in {midx[w], midx[w] + 1}

C14_WorkerReady ==
    \A w \in Procs :
        (wpc[w] = "idle" /\ (IF w \in BatchWorkers THEN batchTaskQueue ELSE taskQueue) # <<>>)
            => ENABLED WorkerTake(w)

C14_ErrorsAreIsolated == [] C14_WorkerReady /\ [][C14_StepRule]_vars

C14_Witness ==
    \E w \in BatchWorkers :
        /\ wtask[w] = "batch"
        /\ wpc[w] = "file"
        /\ midx[w] = BatchSize
        /\ batchTaskQueue # <<>>

\* The member loop of a batch has run to its end
LoopOver == orch.kind = "batch" /\ orch.pc \in {"complete", "done"}

C16_CompletedMeansSettled ==
    orch.batchStatus = "completed"
        => \A f \in Files : orch.dbStatus[f] \in {"success", "failed"}

\* C17: the source of a file leaves its original path only in a step that
\* leaves the destination completely written (the rename, or the removal
\* after the copy-then-delete fallback has written the copy); at no time is a
\* source gone without a complete destination, and a MediaFile whose status
\* is failed still has its source at the original path.
C17_StepRule ==
    \A f \in Files :
        (orch.srcAt[f] /\ ~orch'.srcAt[f])
            => /\ orch'.dst[f] = "complete"
               /\ orch.mode = "move"
               /\ orch.pc = "rename" \/ (orch.pc = "remove" /\ orch.dst[f] = "complete")

C17_SourceSafe ==
    \A f \in Files :
        /\ ~orch.srcAt[f] => orch.dst[f] = "complete"
        /\ orch.dbStatus[f] = "failed" => orch.srcAt[f]

C17_SourceOutlivesFailure == [] C17_SourceSafe /\ [][C17_StepRule]_vars

C17_Witness ==
    /\ orch.mode = "move"
    /\ \E f, g \in Files :
        /\ ~orch.srcAt[f]
        /\ orch.dst[f] = "complete"
        /\ orch.dbStatus[f] = "success"
        /\ orch.dbStatus[g] = "failed"
        /\ orch.cause[g] = "place"
        /\ orch.dst[g] = "partial"
        /\ orch.srcAt[g]

\* A single-file task has returned and its classification, media-info insert,
\* path generation and placement all succeeded
SingleAllSucceeded ==
    /\ orch.kind = "single"
    /\ orch.pc \in {"done", "error"}
    /\ orch.cause[1] \in {"none", "write"}

C19_StepRule ==
    orch.pc = "enrich"
        => /\ orch'.pc \in {"enrich", "path"}
           /\ orch'.cur = orch.cur
           /\ orch'.dbStatus = orch.dbStatus
           /\ orch'.dbErr = orch.dbErr
           /\ orch'.notes = orch.notes
           /\ orch'.cause = orch.cause

C19_Outcome ==
    \A f \in Files :
        ("enrich" \in orch.lost[f] /\ orch.cause[f] = "none" /\ "status" \notin orch.lost[f]
         /\ (orch.pc \in {"done", "error", "complete"} \/ orch.cur > f))
            => /\ orch.dbStatus[f] = "success"
               /\ orch.dbDest[f] \in Targets
               /\ orch.dst[f] = "complete"

C19_EnrichmentNotFatal == [] C19_Outcome /\ [][C19_StepRule]_vars

C19_Witness ==
    /\ orch.kind = "single"
    /\ orch.pc = "done"
    /\ "enrich" \in orch.lost[1]
    /\ orch.dbStatus[1] = "success"

\* ---------------------------------------------------------------------------
\* Properties of the scanner (SpecScan)
\* ---------------------------------------------------------------------------

\* C20: a path enters a ScanResult, as new file or as batch member, only when
\* no MediaFile record exists for it, whatever the status of the record.
C20_StepRule ==
    \A p \in Paths :
        (p \in Reported(scan') /\ p \notin Reported(scan)) => scan.rec[p] = "none"

C20_NoRediscovery == [][C20_StepRule]_vars

\* C21: when a pass in which no create failed is followed by another scan of
\* the same tree, that scan reports no new file and no batch directory.
C21_SecondScanEmpty ==
    (scan.pc = "reported" /\ scan.full) => Reported(scan) = {}

\* The files of directory d the walk let through
Surviving(d) == {p \in scan.surv : DirOf(p) = d}

C23_StepRule ==
    (scan.pc = "reported" /\ scan'.pc = "idle" /\ scan'.full)
        => \A p \in Reported(scan) : Cardinality(scan'.sub[p]) = 1

C23_ExactlyOneTask == [][C23_StepRule]_vars

\* C24: the store never holds more than one MediaFile row for a path, also
\* when a scan pass and a watcher event both found no row for it.
C24_OneRowPerPath ==
    \A p \in Paths : scan.n[p] <= 1

C24_Witness ==
    /\ scan.ev # 0
    /\ scan.n[scan.ev] = 1
    /\ scan.sub[scan.ev] # {}

\* ---------------------------------------------------------------------------
\* Properties of the token bucket (SpecBucket)
\* ---------------------------------------------------------------------------

\* C25: whatever refills, Wait and TryWait calls have happened, the token
\* count of the bucket never exceeds its burst capacity.
C25_NeverAboveBurst == gw.tokens <= BurstUnits

\* A call made after the clock advanced refilled a bucket that the cap kept at
\* the burst capacity, and took one token of it
C25_Witness ==
    /\ gw.now > 0
    /\ gw.last = gw.now
    /\ gw.tokens = BurstUnits - Whole
    /\ \E c \in Callers : gw.res[c] \in {"true", "nil"}

\* C26 as a step: a TryWait call returns in the state it was called in, the
\* clock where it was and the caller not asleep; and when the bucket was
\* emptied, the call succeeds only if at least 1/Rate seconds have passed since
C26_StepRule ==
    \A c \in Callers :
        TryWait(c) =>
            /\ gw'.now = gw.now
            /\ gw'.pc[c] = "idle"
            /\ (gw'.res[c] = "true" /\ gw.emptiedAt >= 0)
                   => (gw.now - gw.emptiedAt) * Rate >= Whole

\* C26: of the TryWait calls made at once on a full bucket, the first Burst
\* succeed and the next fails; after the bucket was emptied TryWait succeeds
\* again only once 1/Rate seconds have passed; TryWait never waits.
C26_BurstThenRate ==
    /\ [](gw.now = 0 /\ ~gw.waited => gw.succ0 = MinNum(gw.tries0, Burst))
    /\ [][C26_StepRule]_vars

\* Burst + 1 calls were made at once on the full bucket, and a later TryWait
\* has just succeeded on the refilled bucket
C26_Witness ==
    /\ gw.tries0 = Burst + 1
    /\ gw.succ0 = Burst
    /\ ~gw.waited
    /\ gw.now > 0
    /\ gw.last = gw.now
    /\ \E c \in Callers : gw.res[c] = "true"
    /\ gw.emptiedAt = gw.now

\* C27 as a step: cancelling the context of a caller asleep in Wait ends the
\* sleep and leaves the token count alone; and the return of a caller whose
\* sleep the cancellation ended yields the context's error and leaves the
\* token count alone
C27_StepRule ==
    \A c \in Callers :
        /\ (gw.pc[c] = "sleep" /\ gw.wake[c] = "" /\ ~gw.done[c] /\ gw'.done[c])
               => (gw'.wake[c] = "cancel" /\ gw'.tokens = gw.tokens)
        /\ (gw.pc[c] = "sleep" /\ gw.wake[c] = "cancel" /\ gw'.pc[c] = "idle")
               => (gw'.res[c] = "err" /\ gw'.tokens = gw.tokens)

\* C27: a Wait whose context is cancelled while it sleeps for a token returns
\* the cancellation error, and no token is taken for that caller.
C27_CancelledWaitTakesNothing == [][C27_StepRule]_vars

\* A caller went to sleep in Wait, its context was cancelled during the sleep,
\* and Wait has returned the error
C27_Witness ==
    \E c \in Callers :
        /\ gw.pc[c] = "idle"
        /\ gw.wake[c] = "cancel"
        /\ gw.res[c] = "err"
        /\ gw.done[c]

\* ---------------------------------------------------------------------------
\* Properties of the cached lookups (SpecCache)
\* ---------------------------------------------------------------------------

\* The lookup of key k that caller c begins in this step returns the first
\* unexpired row at once: no token is taken and the provider is not called
ServedFromCache(c, k) ==
    /\ gw'.out = [to |-> c, src |-> "cache", val |-> Head(Unexpired(gw, k)).exp]
    /\ gw'.lk[c].pc = "idle"
    /\ gw'.tokens = gw.tokens
    /\ gw'.last = gw.last

\* C28 as stated: a lookup whose key has an unexpired cache entry returns the
\* cached payload, takes no rate-limit token and does not call the provider.
C28_StepAsStated ==
    \A c \in Callers, k \in Keys :
        (LookupBegin(c, k) /\ Unexpired(gw, k) # <<>>) => ServedFromCache(c, k)

C28_StepRule ==
    \A c \in Callers, k \in Keys :
        (LookupBegin(c, k) /\ Unexpired(gw, k) # <<>> /\ gw'.lk[c].miss # "error")
            => ServedFromCache(c, k)

RowsOf(k) == {gw.rows[i] : i \in {j \in 1..Len(gw.rows) : gw.rows[j].key = k}}

\* The lookups never return an expired row; a lookup that finds only expired
\* rows goes on to the limiter; and the provider is called only with a token
\* taken for the call
C29_ExpiredRule ==
    \A c \in Callers :
        /\ \A k \in Keys :
               LookupBegin(c, k) =>
                   /\ gw'.lk[c].pc = "idle" =>
                          \E r \in RowsOf(k) : r.exp > gw.now /\ gw'.out.val = r.exp
                   /\ (\A r \in RowsOf(k) : r.exp <= gw.now) =>
                          (gw'.lk[c].pc = "limit" /\ gw'.lk[c].key = k)
        /\ (gw.lk[c].pc # "call" /\ gw'.lk[c].pc = "call") =>
               \/ gw.lk[c].pc = "limit" /\ gw'.tokens = Refill(gw).tokens - Whole
               \/ gw.lk[c].pc = "waiting" /\ gw.res[c] = "nil"

C30_StepRule ==
    \A c \in Callers :
        (gw.lk[c].pc = "call" /\ gw'.lk[c].pc = "idle" /\ gw'.out.src # "provider")
            => /\ gw'.out = [to |-> c, src |-> "error", val |-> 0]
               /\ gw'.rows = gw.rows
               /\ Unexpired(gw, gw.lk[c].key) = <<>>
                      => ReadOutcomes(gw', gw.lk[c].key) = {"notfound", "error"}

\* C30: when the provider call fails the error is returned and no cache entry
\* is written for the key, so the next lookup calls the provider again.
C30_FailureNotCached == [][C30_StepRule]_vars

\* A caller's lookup failed at the provider, and its next lookup, the cache
\* still empty, is at the provider again
C30_Witness ==
    /\ gw.out.src = "error"
    /\ gw.lk[gw.out.to].pc = "call"
    /\ gw.rows = <<>>

\* C35: with any number of callers blocked in Wait at once, every Wait that
\* returns nil took a token that was there: the token count never drops below
\* zero (so that no more than burst + rate * t calls are admitted in a time t).
C35_NeverBelowZero == gw.tokens >= 0

\* ---------------------------------------------------------------------------
\* Properties of the classifier conversations (SpecConv)
\* ---------------------------------------------------------------------------

\* The attempts of the first request made so far, the one under way included
Attempts(c) == IF conv.pc[c] = "call0" THEN conv.i[c] + 1 ELSE 0

\* C31 as stated: the first request of a conversation is attempted at most
\* MaxRetries times in all.
C31_AsStated == \A c \in Callers : Attempts(c) <= MaxRetries

\* The last attempt fails: the classifier returns the error, no call is out
C31_StepRule ==
    \A c \in Callers :
        (LlmFirstReply(c, "err") /\ conv.i[c] = MaxRetries)
            => /\ conv'.pc[c] = "idle"
               /\ conv'.res[c] = "transport"
               /\ conv'.llm = conv.llm - 1

\* C31 (amended): the first request of a conversation is attempted at most
\* MaxRetries + 1 times in all (once, and MaxRetries retries); when every
\* attempt fails the classifier returns an error and makes no further call.
C31_RetriesBounded ==
    /\ [](\A c \in Callers : Attempts(c) <= MaxRetries + 1)
    /\ [][C31_StepRule]_vars

\* All the attempts of a first request failed and the error was returned
C31_Witness ==
    \E c \in Callers :
        /\ conv.pc[c] = "idle"
        /\ conv.res[c] = "transport"
        /\ conv.rounds[c] = 0
        /\ conv.i[c] = MaxRetries

\* C32: a transport failure of any model call of a conversation, the request
\* that follows a tool result included, is retried up to the retry limit
\* before the task is failed.
C32_EveryCallRetried ==
    \A c \in Callers : conv.res[c] = "transport" => conv.i[c] = MaxRetries

\* C33: when the model requests a tool name that is not registered, the
\* classifier returns an error at once: no handler runs and no further model
\* call is made.
C33_StepRule ==
    \A c \in Callers :
        (LlmLookup(c) /\ conv.name[c] \notin Tools)
            => /\ conv'.pc[c] = "idle"
               /\ conv'.res[c] = "unknown"
               /\ conv'.llm = conv.llm - 1

C33_UnknownToolIsFatal == [][C33_StepRule]_vars

\* The tasks inside the classifier, from Acquire's return to the return
InConv == {c \in Callers : conv.pc[c] \in {"call0", "lookup", "handler", "calln"}}

\* A reply that requests a registered tool keeps the conversation going with
\* the slot held, however many rounds it has had; and the classifier returns
\* only on a final reply or on a call that failed
C34_StepRule ==
    \A c \in Callers :
        /\ \A r \in Tools :
               (LlmFirstReply(c, r) \/ LlmFollowUp(c, r))
                   => (conv'.pc[c] = "lookup" /\ conv'.llm = conv.llm)
        /\ (c \in InConv /\ conv'.pc[c] = "idle")
               => \/ \E r \in {"err", "final_ok", "final_bad"} :
                         LlmFirstReply(c, r) \/ LlmFollowUp(c, r)
                  \/ conv.pc[c] = "lookup" /\ ~Registered(conv, conv.name[c])
                  \/ conv.pc[c] = "handler"

\* C34: the rounds of a conversation are not bounded: the classifier returns
\* only when the model replies without a tool request or a call fails, and
\* holds its slot of the LLM gate until then.
C34_RoundsUnbounded ==
    /\ [](conv.llm >= Cardinality(InConv))
    /\ [][C34_StepRule]_vars

\* A conversation has had as many rounds as the model explores, and is still
\* on with its slot held
C34_Witness ==
    \E c \in Callers :
        /\ conv.rounds[c] = MaxRounds
        /\ conv.pc[c] = "calln"
        /\ conv.llm >= 1

\* C36: no state but the queues, the gates, the token buckets and the
\* persisted records is accessed by two tasks at once with one of them
\* writing: the handler registry is never written by a task while another
\* task reads or writes it.
C36_RegistryNotShared ==
    \A c \in Callers : conv.pc[c] = "reg" => ~AccessBeside(conv, c)

\* C37: with the pool running, every MediaFile record created pending, by a
\* scan pass or by a watcher event, is taken by a worker in the end: between
\* passes and events there is no pending record whose task was never
\* submitted to the pool.
C37_PendingWasSubmitted ==
    (scan.pc = "idle" /\ scan.ev = 0)
        => \A p \in Paths : scan.rec[p] = "pending" => scan.sub[p] # {}

\* No lookup is in flight: the lookups are made one after the other
Sequential == \A c \in Callers : gw.lk[c].pc = "idle"

\* The last lookup ended in a successful provider call and its entry's TTL
\* has not run out
AfterProviderCall == gw.out.src = "provider" /\ gw.out.val > gw.now

\* The lookup that caller c begins in this step is a cache hit: it returns
\* a row at once, without a token and without the provider
RepeatIsHit(c) ==
    /\ gw'.out.to = c
    /\ gw'.out.src = "cache"
    /\ gw'.lk[c].pc = "idle"
    /\ gw'.tokens = gw.tokens

\* C38 as stated: in sequential use, after a miss that ended in a successful
\* provider call, the same lookup repeated before the TTL expires is a hit.
C38_StepAsStated ==
    \A c \in Callers, k \in Keys :
        (Sequential /\ AfterProviderCall /\ LookupBegin(c, k)) => RepeatIsHit(c)

C38_WriteBack ==
    \A c \in Callers :
        (ProviderReply(c) /\ Len(gw'.rows) > Len(gw.rows)) =>
            /\ gw'.out = [to |-> c, src |-> "provider", val |-> gw.now + CacheTTL]
            /\ gw'.rows[Len(gw'.rows)] = [key |-> gw.lk[c].key, exp |-> gw.now + CacheTTL]

C38_StepRule ==
    \A c \in Callers, k \in Keys :
        (/\ Sequential
         /\ AfterProviderCall
         /\ LookupBegin(c, k)
         /\ \E r \in RowsOf(k) : r.exp = gw.out.val
         /\ gw'.lk[c].miss # "error") => RepeatIsHit(c)

Invoked == {w \in Procs : wpc[w] = "idle" /\ wpc'[w] = "proc"}

\* The channel a worker receives from
ChannelOf(w) == IF w \in BatchWorkers THEN batchTaskQueue ELSE taskQueue

\* C39 as a step: the processing function is invoked by one worker at a
\* time, for the task at the head of the channel of its own kind, which
\* leaves the channel in the same step; and a task leaves a channel only so
C39_StepRule ==
    /\ Cardinality(Invoked) <= 1
    /\ \A w \in Invoked :
           /\ ChannelOf(w) # <<>>
           /\ wtask'[w] = Head(ChannelOf(w))
           /\ (wtask'[w] = "batch") <=> (w \in BatchWorkers)
           /\ IF w \in BatchWorkers
              THEN batchTaskQueue' = Tail(batchTaskQueue) /\ taskQueue' = taskQueue
              ELSE taskQueue' = Tail(taskQueue) /\ batchTaskQueue' = batchTaskQueue
           /\ \A v \in Procs \ {w} : wtask'[v] = wtask[v] /\ wpc'[v] = wpc[v]
    /\ (Len(taskQueue') < Len(taskQueue)) => \E w \in Invoked : w \in GeneralWorkers
    /\ (Len(batchTaskQueue') < Len(batchTaskQueue)) => \E w \in Invoked : w \in BatchWorkers
    /\ \A w \in Procs : (wtask'[w] # wtask[w] /\ wtask'[w] # "none") => w \in Invoked

\* C39: every accepted task is dequeued by at most one worker, of the
\* matching kind, and its processing function is invoked at most once: each
\* invocation takes one task out of the channel of the worker's kind, and a
\* worker holds a task of its kind while, and only while, it processes.
C39_TakenOnce ==
    /\ [](\A w \in Procs :
             /\ (wpc[w] = "proc") => (wtask[w] = (IF w \in BatchWorkers THEN "batch" ELSE "single"))
             /\ (wpc[w] \in {"idle", "exited"}) => wtask[w] = "none")
    /\ [][C39_StepRule]_vars

\* Every worker is processing a task of its kind at the same moment, more
\* tasks waiting in the general channel
C39_Witness ==
    /\ \A w \in Procs : wpc[w] = "proc"
    /\ \A w \in GeneralWorkers : wtask[w] = "single"
    /\ \A w \in BatchWorkers : wtask[w] = "batch"
    /\ taskQueue # <<>>

\* C40: in batch processing the member record whose status is updated for a
\* processed MediaFile is the member record that references that MediaFile,
\* also after an earlier member was skipped because its lookup failed.
C40_StepRule ==
    \A f \in Files : orch'.bfCall[f] # orch.bfCall[f] => f = orch.cur

C40_MemberOfSameFile == [][C40_StepRule]_vars

====
